---- MODULE Spec2Model ----
(***************************************************************************)
(* A model of pytest_mcp: the Session (MockMCPClient), the lifecycle       *)
(* manager (MCPTestServer) and the snapshot store (SnapshotHelper).        *)
(*                                                                         *)
(* Every coroutine is modelled step by step: one action per stretch of     *)
(* code between two awaits.  The transport (stdio_client), the handshake   *)
(* session (ClientSession) and the server are the environment: each await  *)
(* on them either succeeds or raises.                                      *)
(***************************************************************************)
EXTENDS Integers, Sequences, FiniteSets, TLC

None == "None"

\* Sessions one manager constructs in a run (every start() constructs one).
MaxClients == 3

VARIABLES
    clients,        \* the MockMCPClient objects constructed so far, by index
    procs,          \* per Session: stdio_client scopes entered and not yet exited
    opened,         \* per Session: ClientSession scopes entered and not yet exited
    handshaken,     \* per Session: initialize() has completed on the open ClientSession
    pc,             \* where the Session-level coroutine in progress is suspended
    call,           \* the Session-level call in progress, or the last one
    server,         \* what the server does to the connect() in progress
    exc,            \* the exception bound to `e` in connect()'s handler
    pending_raise,  \* AsyncExitStack.__aexit__: a callback has raised
    sent,           \* requests the call in progress (or the last one) sent to the server
    result,         \* how the last Session-level call ended
    prev,           \* how the Session-level call before that ended
    _client,        \* MCPTestServer._client: an index into clients, or 0 for None
    mpc,            \* where the manager-level coroutine in progress is suspended
    mop,            \* the manager-level call in progress, or the last one
    mresult,        \* how the last manager-level call ended
    got,            \* what the last get_client() gave, since the last manager call
    files,          \* the snapshot directory: path |-> text of each file in it
    node,           \* request.node.name of the test the SnapshotHelper was built for
    update_snapshots, \* SnapshotHelper.update_snapshots (--mcp-update-snapshots)
    last,           \* the last SnapshotHelper call and what it found
    verdict,        \* how that call ended
    author,         \* path |-> the test instance and snapshot name that last wrote it
    managers,       \* MCPTestServerFactory: the _client of each manager it created
    _servers,       \* MCPTestServerFactory._servers: the managers it tracks
    fpc,            \* where the factory-level coroutine in progress is suspended
    fresult,        \* how the last stop_all() ended
    checked,        \* the last call of an assertion helper: its arguments and how it ended
    ret,            \* what the last get_snapshot, delete_snapshot or list_snapshots returned
    retry,          \* the call of a retry_on_failure wrapper in progress, or the last one
    overlap,        \* one MockMCPClient with connect() calls that overlap
    body            \* the run of a test body that asserts snapshots one after the other

svars == <<clients, procs, opened, handshaken, pc, call, server, exc,
           pending_raise, sent, result, prev>>
mvars == <<_client, mpc, mop, mresult, got>>
hvars == <<files, node, update_snapshots, last, verdict, author, ret>>
fvars == <<managers, _servers, fpc, fresult>>
avars == <<checked>>
rvars == <<retry>>
cvars == <<overlap>>
bvars == <<body>>
vars == <<svars, mvars, hvars, fvars, avars, rvars, cvars, bvars>>

(***************************************************************************)
(* MockMCPClient: the object and the synchronous pieces of its methods.    *)
(***************************************************************************)

\* self._exit_stack = None
NoStack == [held |-> FALSE, callbacks |-> <<>>]

\* MockMCPClient.__init__
NewClient ==
    [_session |-> None, _read_stream |-> None, _write_stream |-> None,
     _exit_stack |-> NoStack]

\* is_connected
is_connected(c) == c._session # None

\* _ensure_connected: the session, or the not-connected RuntimeError
_ensure_connected(c) == IF c._session = None THEN "RuntimeError" ELSE "ok"

\* connect() without its early return
AlreadyConnected_unguarded(c) == FALSE

\* connect(): the already-connected early return
AlreadyConnected(c) == c._session # None

\* connect(): self._exit_stack = AsyncExitStack()
NewExitStack(c) == [c EXCEPT !._exit_stack = [held |-> TRUE, callbacks |-> <<>>]]

\* connect(): stdio_client entered on the stack, the streams kept
EnterTransport(c) ==
    [c EXCEPT !._exit_stack.callbacks = Append(@, "stdio_client"),
              !._read_stream = "read", !._write_stream = "write"]

\* the ClientSession callback pushed under the transport's
EnterSession_under(c) ==
    [c EXCEPT !._exit_stack.callbacks = <<"ClientSession">> \o @,
              !._session = "ClientSession"]

\* connect(): ClientSession entered on the stack, the session kept
EnterSession(c) ==
    [c EXCEPT !._exit_stack.callbacks = Append(@, "ClientSession"),
              !._session = "ClientSession"]

\* connect()'s handler after aclose() returned: the fields are dropped
ConnectCleanup(c) ==
    [c EXCEPT !._exit_stack = NoStack, !._session = None,
              !._read_stream = None, !._write_stream = None]

\* disconnect() after aclose() returned (or with no stack): the fields are dropped
DisconnectClear(c) ==
    [c EXCEPT !._exit_stack = NoStack, !._session = None,
              !._read_stream = None, !._write_stream = None]

\* AnyUrl(uri) on a string: a string that is no URI raises pydantic's ValidationError
Coerce(uri) == IF uri = "invalid_str" THEN "ValidationError" ELSE "ok"

Uris == {"AnyUrl", "valid_str", "invalid_str"}
ListOps == {"list_tools", "list_resources", "get_tool"}
Ops == ListOps \cup {"call_tool", "read_resource", "get_resource"}

\* What each operation does before its request goes out: "ok" (send), or the
\* exception raised instead.
BeforeSend(op, c, uri) ==
    CASE op \in ListOps \cup {"call_tool"} -> _ensure_connected(c)
      [] op = "read_resource" ->
            IF _ensure_connected(c) # "ok" THEN _ensure_connected(c) ELSE Coerce(uri)
      [] op = "get_resource" ->
            IF Coerce(uri) # "ok" THEN Coerce(uri) ELSE _ensure_connected(c)

(***************************************************************************)
(* The Session-level coroutines.                                           *)
(***************************************************************************)

self == call.self
cur == clients[self]

ServerConditions == {"healthy", "spawn_fails", "open_fails", "initialize_fails"}

Ended(op, outcome, cause) == [op |-> op, outcome |-> outcome, cause |-> cause]

\* A Session-level call ends: its outcome is kept, the caller resumes.
Return(outcome, cause) ==
    /\ pc' = "idle"
    /\ result' = Ended(call.op, outcome, cause)
    /\ prev' = result

\* A Session-level call begins on Session i.
Begin(i, op, uri) ==
    /\ pc = "idle"
    /\ pc' = op
    /\ call' = [op |-> op, self |-> i, uri |-> uri]
    /\ sent' = 0
    /\ exc' = None
    /\ pending_raise' = FALSE

\* connect(), to the first await
ConnectEntry ==
    /\ pc = "connect"
    /\ IF AlreadyConnected(cur)
         THEN /\ Return("ok", None)
              /\ UNCHANGED clients
         ELSE /\ clients' = [clients EXCEPT ![self] = NewExitStack(cur)]
              /\ pc' = "stdio_client"
              /\ UNCHANGED <<result, prev>>
    /\ UNCHANGED <<procs, opened, handshaken, call, server, exc, pending_raise, sent>>

\* await enter_async_context(stdio_client(...)): the transport is spawned, or not
SpawnTransport ==
    /\ pc = "stdio_client"
    /\ IF server = "spawn_fails"
         THEN /\ exc' = "spawn"
              /\ pc' = "except"
              /\ UNCHANGED <<clients, procs>>
         ELSE /\ clients' = [clients EXCEPT ![self] = EnterTransport(cur)]
              /\ procs' = [procs EXCEPT ![self] = @ + 1]
              /\ pc' = "ClientSession"
              /\ UNCHANGED exc
    /\ UNCHANGED <<opened, handshaken, call, server, pending_raise, sent, result, prev>>

\* await enter_async_context(ClientSession(read, write))
OpenSession ==
    /\ pc = "ClientSession"
    /\ IF server = "open_fails"
         THEN /\ exc' = "open"
              /\ pc' = "except"
              /\ UNCHANGED <<clients, opened>>
         ELSE /\ clients' = [clients EXCEPT ![self] = EnterSession(cur)]
              /\ opened' = [opened EXCEPT ![self] = @ + 1]
              /\ pc' = "initialize"
              /\ UNCHANGED exc
    /\ UNCHANGED <<procs, handshaken, call, server, pending_raise, sent, result, prev>>

\* await session.initialize()
Initialize ==
    /\ pc = "initialize"
    /\ IF server = "initialize_fails"
         THEN /\ exc' = "initialize"
              /\ pc' = "except"
              /\ UNCHANGED <<handshaken, result, prev>>
         ELSE /\ handshaken' = [handshaken EXCEPT ![self] = TRUE]
              /\ Return("ok", None)
              /\ UNCHANGED exc
    /\ UNCHANGED <<clients, procs, opened, call, server, pending_raise, sent>>

\* except Exception as e: if self._exit_stack: await self._exit_stack.aclose()
ConnectExcept ==
    /\ pc = "except"
    /\ pc' = IF cur._exit_stack.held THEN "aclose" ELSE "closed"
    /\ UNCHANGED <<clients, procs, opened, handshaken, call, server, exc,
                   pending_raise, sent, result, prev>>

\* AsyncExitStack.__aexit__: the last callback is popped and awaited; one that
\* raises does not stop the loop.
ExitCallback ==
    /\ pc = "aclose"
    /\ cur._exit_stack.callbacks # <<>>
    /\ LET cbs == cur._exit_stack.callbacks
           cb == cbs[Len(cbs)]
       IN /\ clients' = [clients EXCEPT
                 ![self]._exit_stack.callbacks = SubSeq(cbs, 1, Len(cbs) - 1)]
          /\ IF cb = "ClientSession"
               THEN /\ opened' = [opened EXCEPT ![self] = @ - 1]
                    /\ handshaken' = [handshaken EXCEPT ![self] = FALSE]
                    /\ UNCHANGED procs
               ELSE /\ procs' = [procs EXCEPT ![self] = @ - 1]
                    /\ UNCHANGED <<opened, handshaken>>
    /\ \E raises \in BOOLEAN : pending_raise' = (pending_raise \/ raises)
    /\ UNCHANGED <<pc, call, server, exc, sent, result, prev>>

\* AsyncExitStack.__aexit__: no callback is left
ExitStackDone ==
    /\ pc = "aclose"
    /\ cur._exit_stack.callbacks = <<>>
    /\ pc' = IF pending_raise THEN "raised" ELSE "closed"
    /\ UNCHANGED <<clients, procs, opened, handshaken, call, server, exc,
                   pending_raise, sent, result, prev>>

\* connect()'s handler once aclose() is over: the fields are dropped and the
\* ConnectionError raised from e, unless aclose() itself raised.
ConnectFail ==
    /\ call.op = "connect"
    /\ \/ /\ pc = "closed"
          /\ clients' = [clients EXCEPT ![self] = ConnectCleanup(cur)]
          /\ Return("ConnectionError", exc)
       \/ /\ pc = "raised"
          /\ Return("ExitError", None)
          /\ UNCHANGED clients
    /\ UNCHANGED <<procs, opened, handshaken, call, server, exc, pending_raise, sent>>

\* disconnect(), to the await of aclose()
DisconnectEntry ==
    /\ pc = "disconnect"
    /\ pc' = IF cur._exit_stack.held THEN "aclose" ELSE "closed"
    /\ UNCHANGED <<clients, procs, opened, handshaken, call, server, exc,
                   pending_raise, sent, result, prev>>

\* disconnect() once aclose() is over, or with no stack
DisconnectEnd ==
    /\ call.op = "disconnect"
    /\ \/ /\ pc = "closed"
          /\ clients' = [clients EXCEPT ![self] = DisconnectClear(cur)]
          /\ Return("ok", None)
       \/ /\ pc = "raised"
          /\ Return("ExitError", None)
          /\ UNCHANGED clients
    /\ UNCHANGED <<procs, opened, handshaken, call, server, exc, pending_raise, sent>>

\* list_tools, call_tool, list_resources, read_resource, get_tool, get_resource:
\* to the await of the request
RequestEntry ==
    /\ pc \in Ops
    /\ LET pre == BeforeSend(call.op, cur, call.uri)
       IN IF pre = "ok"
            THEN /\ sent' = sent + 1
                 /\ pc' = "reply"
                 /\ UNCHANGED <<result, prev>>
            ELSE /\ Return(pre, None)
                 /\ UNCHANGED sent
    /\ UNCHANGED <<clients, procs, opened, handshaken, call, server, exc, pending_raise>>

\* what the server or the protocol layer does to a request
Answers == {"ok", "ServerError"}

\* a request method that wraps the failure of its request
Raised_wrapped(op, e) == IF e = "ok" THEN "ok" ELSE "RuntimeError"

\* what the caller of a request method gets when the request ended with e:
\* call_tool and read_resource log and `raise`, the others have no handler
Raised(op, e) == e

\* the server answers the request, or fails it
Reply ==
    /\ pc = "reply"
    /\ \E e \in Answers : Return(Raised(call.op, e), IF e = "ok" THEN None ELSE e)
    /\ UNCHANGED <<clients, procs, opened, handshaken, call, server, exc,
                   pending_raise, sent>>

(***************************************************************************)
(* A test that owns one Session and calls it, one call at a time.          *)
(***************************************************************************)

\* await client.connect(), against a server in any condition
Connect ==
    /\ Begin(1, "connect", None)
    /\ server' \in ServerConditions
    /\ UNCHANGED <<clients, procs, opened, handshaken, result, prev>>

\* await client.disconnect()
Disconnect ==
    /\ Begin(1, "disconnect", None)
    /\ UNCHANGED <<clients, procs, opened, handshaken, server, result, prev>>

\* await client.<op>(...)
Request ==
    /\ \E op \in Ops : \E uri \in Uris : Begin(1, op, uri)
    /\ UNCHANGED <<clients, procs, opened, handshaken, server, result, prev>>

(***************************************************************************)
(* MCPTestServer: the lifecycle manager.                                   *)
(***************************************************************************)

\* get_client() that hands out self._client unchecked
get_client_unchecked == [outcome |-> "ok", client |-> _client]

\* get_client(): the client, or the 'Server is not started' RuntimeError
get_client ==
    IF _client = 0 \/ ~is_connected(clients[_client])
      THEN [outcome |-> "RuntimeError", client |-> 0]
      ELSE [outcome |-> "ok", client |-> _client]

\* is_running
is_running == _client # 0 /\ is_connected(clients[_client])

MEnded(op, outcome) == [op |-> op, outcome |-> outcome, cause |-> None]

NoneGot == [outcome |-> None, client |-> 0]

\* start(), to the await of connect(): a new MockMCPClient replaces self._client
StartBody ==
    /\ Len(clients) < MaxClients
    /\ clients' = Append(clients, NewClient)
    /\ procs' = Append(procs, 0)
    /\ opened' = Append(opened, 0)
    /\ handshaken' = Append(handshaken, FALSE)
    /\ _client' = Len(clients) + 1
    /\ Begin(Len(clients) + 1, "connect", None)
    /\ server' \in ServerConditions
    /\ mpc' = "start"
    /\ UNCHANGED <<result, prev, mresult>>

\* stop(), to the await of disconnect(), for a manager that holds a client
StopBody(at) ==
    /\ _client # 0
    /\ Begin(_client, "disconnect", None)
    /\ mpc' = at
    /\ UNCHANGED <<clients, procs, opened, handshaken, server, result, prev,
                   _client, mresult>>

\* a manager-level call returns or raises to the test
MReturn(outcome) ==
    /\ mpc' = "idle"
    /\ mresult' = MEnded(mop, outcome)

\* a manager-level call raises `raised.outcome` from `raised.cause`
MRaise(raised) ==
    /\ mpc' = "idle"
    /\ mresult' = [op |-> mop, outcome |-> raised.outcome, cause |-> raised.cause]

Quiescent == mpc = "idle" /\ pc = "idle"

\* start() that lets the failure of connect() through as it is
start_reraise(e) == [outcome |-> e, cause |-> None]

\* start(): raise RuntimeError(f"Could not start MCP server: {e}") from e
start_raise(e) == [outcome |-> "RuntimeError", cause |-> e]

\* wait_for_ready() that lets the failure of the probe through as it is
wait_for_ready_reraise(e) == [outcome |-> e, cause |-> None]

\* wait_for_ready(): raise TimeoutError(f"Server did not become ready: {e}") from e
wait_for_ready_raise(e) == [outcome |-> "TimeoutError", cause |-> e]

\* await server.start()
Start ==
    /\ Quiescent
    /\ mop' = "start"
    /\ got' = NoneGot
    /\ StartBody

\* start(): connect() returned, or raised: stop() is awaited before the
\* RuntimeError is raised
StartResume ==
    /\ mpc = "start"
    /\ pc = "idle"
    /\ IF result.outcome = "ok"
         THEN /\ MReturn("ok")
              /\ UNCHANGED <<svars, _client>>
         ELSE StopBody("except_stop")
    /\ UNCHANGED <<mop, got>>

\* start(): the stop() of the handler is over (finally: self._client = None);
\* e, the failure of connect(), is the call before stop()'s disconnect()
StartFail ==
    /\ mpc = "except_stop"
    /\ pc = "idle"
    /\ _client' = 0
    /\ MRaise(start_raise(prev.outcome))
    /\ UNCHANGED <<svars, mop, got>>

\* await server.stop()
Stop ==
    /\ Quiescent
    /\ mop' = "stop"
    /\ got' = NoneGot
    /\ \/ StopBody("stop")
       \/ /\ _client = 0
          /\ mpc' = "idle"
          /\ mresult' = MEnded("stop", "ok")
          /\ UNCHANGED <<svars, _client>>

\* stop(): disconnect() returned, or raised and was logged (finally:
\* self._client = None); restart() goes on to start()
StopResume ==
    /\ mpc = "stop"
    /\ pc = "idle"
    /\ \/ /\ mop = "stop"
          /\ _client' = 0
          /\ MReturn("ok")
          /\ UNCHANGED svars
       \/ /\ mop = "restart"
          /\ StartBody
    /\ UNCHANGED <<mop, got>>

\* await server.restart()
Restart ==
    /\ Quiescent
    /\ Len(clients) < MaxClients
    /\ mop' = "restart"
    /\ got' = NoneGot
    /\ \/ StopBody("stop")
       \/ /\ _client = 0
          /\ StartBody

\* server.get_client()
GetClient ==
    /\ Quiescent
    /\ got' = get_client
    /\ UNCHANGED <<svars, _client, mpc, mop, mresult>>

\* await server.wait_for_ready(timeout): get_client(), then the await of
\* client.list_tools(); timeout is read and not used
WaitForReady ==
    /\ Quiescent
    /\ mop' = "wait_for_ready"
    /\ got' = NoneGot
    /\ IF get_client.outcome = "ok"
         THEN /\ Begin(get_client.client, "list_tools", None)
              /\ mpc' = "probe"
              /\ UNCHANGED <<clients, procs, opened, handshaken, server, result, prev,
                             mresult>>
         ELSE /\ mpc' = "idle"
              /\ mresult' = [op |-> "wait_for_ready",
                             outcome |-> wait_for_ready_raise(get_client.outcome).outcome,
                             cause |-> wait_for_ready_raise(get_client.outcome).cause]
              /\ UNCHANGED svars
    /\ UNCHANGED _client

\* wait_for_ready(): list_tools() returned, or raised
WaitResume ==
    /\ mpc = "probe"
    /\ pc = "idle"
    /\ IF result.outcome = "ok"
         THEN MReturn("ok")
         ELSE MRaise(wait_for_ready_raise(result.outcome))
    /\ UNCHANGED <<svars, _client, mop, got>>

(***************************************************************************)
(* MCPTestServerFactory: managers created from one factory.  Manager k is   *)
(* known by its _client field, managers[k].                                *)
(***************************************************************************)

\* Managers one factory creates in a run.
MaxServers == 2

FIdle == [at |-> "idle", k |-> 0, i |-> 0]
NoSweep == [op |-> None, outcome |-> None, stopped |-> 0, failed |-> 0]

\* is_running of manager k
ManagerRunning(k) == managers[k] # 0 /\ is_connected(clients[managers[k]])

\* stop() whose finally is missing
StopFinally_keep(c) == c

\* stop(): finally: self._client = None
StopFinally(c) == 0

\* factory.create(): a new manager, tracked
create ==
    /\ fpc.at = "idle"
    /\ pc = "idle"
    /\ Len(managers) < MaxServers
    /\ managers' = Append(managers, 0)
    /\ _servers' = Append(_servers, Len(managers) + 1)
    /\ UNCHANGED <<fpc, fresult>>

\* await server.start() on manager k, to the await of connect()
ManagerStart(k) ==
    /\ fpc.at = "idle"
    /\ pc = "idle"
    /\ k \in 1..Len(managers)
    /\ Len(clients) < MaxClients
    /\ clients' = Append(clients, NewClient)
    /\ procs' = Append(procs, 0)
    /\ opened' = Append(opened, 0)
    /\ handshaken' = Append(handshaken, FALSE)
    /\ managers' = [managers EXCEPT ![k] = Len(clients) + 1]
    /\ Begin(Len(clients) + 1, "connect", None)
    /\ server' \in ServerConditions
    /\ fpc' = [at |-> "start", k |-> k, i |-> 0]
    /\ UNCHANGED <<result, prev, _servers, fresult>>

\* start() of manager k: connect() returned, or raised: stop() is awaited
ManagerStartResume ==
    /\ fpc.at = "start"
    /\ pc = "idle"
    /\ IF result.outcome = "ok"
         THEN /\ fpc' = FIdle
              /\ UNCHANGED svars
         ELSE /\ Begin(managers[fpc.k], "disconnect", None)
              /\ fpc' = [fpc EXCEPT !.at = "except_stop"]
              /\ UNCHANGED <<clients, procs, opened, handshaken, server, result, prev>>
    /\ UNCHANGED <<managers, _servers, fresult>>

\* start() of manager k: the stop() of the handler is over, the RuntimeError
\* is raised to the test
ManagerStartFail ==
    /\ fpc.at = "except_stop"
    /\ pc = "idle"
    /\ managers' = [managers EXCEPT ![fpc.k] = StopFinally(@)]
    /\ fpc' = FIdle
    /\ UNCHANGED <<svars, _servers, fresult>>

\* await factory.stop_all(): for server in self._servers
stop_all ==
    /\ fpc.at = "idle"
    /\ pc = "idle"
    /\ fpc' = [at |-> "stop_all", k |-> 0, i |-> 1]
    /\ fresult' = [op |-> "stop_all", outcome |-> None, stopped |-> 0, failed |-> 0]
    /\ UNCHANGED <<svars, managers, _servers>>

\* stop_all(): the next server of the list: await server.stop(), which awaits
\* disconnect() if the manager holds a client; after the last one,
\* self._servers.clear()
StopAllNext ==
    /\ fpc.at = "stop_all"
    /\ pc = "idle"
    /\ IF fpc.i > Len(_servers)
         THEN /\ _servers' = <<>>
              /\ fpc' = FIdle
              /\ fresult' = [fresult EXCEPT !.outcome = "ok"]
              /\ UNCHANGED svars
         ELSE /\ IF managers[_servers[fpc.i]] = 0
                   THEN /\ fpc' = [fpc EXCEPT !.i = @ + 1]
                        /\ UNCHANGED svars
                   ELSE /\ Begin(managers[_servers[fpc.i]], "disconnect", None)
                        /\ fpc' = [fpc EXCEPT !.at = "stopping", !.k = _servers[fpc.i]]
                        /\ UNCHANGED <<clients, procs, opened, handshaken, server,
                                       result, prev>>
              /\ UNCHANGED <<_servers, fresult>>
    /\ UNCHANGED managers

\* stop_all(): the stop() of manager k is over: disconnect() returned, or
\* raised and was logged by stop(); finally: self._client = None
StopAllResume ==
    /\ fpc.at = "stopping"
    /\ pc = "idle"
    /\ managers' = [managers EXCEPT ![fpc.k] = StopFinally(@)]
    /\ fresult' = [fresult EXCEPT !.stopped = @ + 1,
                                  !.failed = @ + (IF result.outcome = "ok" THEN 0 ELSE 1)]
    /\ fpc' = [at |-> "stop_all", k |-> 0, i |-> fpc.i + 1]
    /\ UNCHANGED <<svars, _servers>>

(***************************************************************************)
(* SnapshotHelper.  A name is the sequence of its characters; a snapshot   *)
(* text is the sequence of its JSON tokens (the white space json.dumps     *)
(* puts between them is left out: json.loads skips it).                    *)
(***************************************************************************)

\* request.node.name of the tests that share the snapshot directory
NodeNames == { <<"t">>, <<"t", "[", "1", "]">>, <<"t", "_", "_", "a">> }

\* the snapshot names the tests pass
SnapshotNames == { <<"b">>, <<"a", "_", "_", "b">> }

\* the node name kept whole
SplitBracket_keep(s) == s

\* test_name.split("[")[0]
SplitBracket(s) ==
    LET at == {i \in 1..Len(s) : s[i] = "["}
    IN IF at = {} THEN s
       ELSE SubSeq(s, 1, (CHOOSE i \in at : \A j \in at : i <= j) - 1)

\* _get_snapshot_path: snapshot_dir / f"{test_name}__{snapshot_name}.json"
_get_snapshot_path(test_name, snapshot_name) ==
    SplitBracket(test_name) \o <<"_", "_">> \o snapshot_name \o <<".json">>

\* A Python value: an atom (named by its repr), or a list, tuple, dict or
\* pydantic model of atoms.  items holds <<key, atom>> pairs, in insertion
\* order for a dict; the key of a list or tuple item is "".
Atom(a) == [kind |-> "atom", atom |-> a, items |-> <<>>]
Container(kind, items) == [kind |-> kind, atom |-> "", items |-> items]

\* The values the tests pass to assert_match.
Values ==
    { Atom("1"), Atom("True"), Atom("<obj>"),
      Container("dict", << <<"'a'", "1">> >>),
      Container("dict", << <<"'b'", "2">>, <<"'a'", "1">> >>),
      Container("model", << <<"'a'", "1">> >>),
      Container("tuple", << <<"", "1">>, <<"", "'a'">> >>) }

\* JSON can represent the value as it is: a str, int, bool or None, or a list
\* or str-keyed dict of them.
JSONRepresentable(v) ==
    /\ v.kind \in {"atom", "list", "dict"}
    /\ v.kind = "atom" => v.atom # "<obj>"
    /\ \A i \in 1..Len(v.items) :
          /\ v.items[i][2] # "<obj>"
          /\ v.kind = "dict" => v.items[i][1] \in {"'a'", "'b'"}

\* json.dumps of an atom; default=str renders what is no JSON data as a string
AtomToken(a) ==
    CASE a = "1" -> "1"
      [] a = "2" -> "2"
      [] a = "True" -> "true"
      [] a = "None" -> "null"
      [] a = "'a'" -> "\"a\""
      [] a = "'b'" -> "\"b\""
      [] a = "'1'" -> "\"1\""
      [] a = "<obj>" -> "\"<obj>\""
      [] a = "'<obj>'" -> "\"<obj>\""

\* json.dumps of a dict key: an int key becomes the string of its digits
KeyToken(k) == IF k = "1" THEN "\"1\"" ELSE AtomToken(k)

\* json.loads of an atom's token
TokenAtom(t) ==
    CASE t = "1" -> "1"
      [] t = "2" -> "2"
      [] t = "true" -> "True"
      [] t = "null" -> "None"
      [] t = "\"a\"" -> "'a'"
      [] t = "\"b\"" -> "'b'"
      [] t = "\"1\"" -> "'1'"
      [] t = "\"<obj>\"" -> "'<obj>'"

\* the order sort_keys puts the keys in
KeyRank(k) == CASE k = "'a'" -> 1 [] k = "'b'" -> 2 [] k = "1" -> 3 [] OTHER -> 4

RECURSIVE SortItems(_)
SortItems(items) ==
    IF items = <<>> THEN <<>>
    ELSE LET m == CHOOSE i \in 1..Len(items) :
                     \A j \in 1..Len(items) : KeyRank(items[i][1]) <= KeyRank(items[j][1])
         IN <<items[m]>> \o
            SortItems(SubSeq(items, 1, m - 1) \o SubSeq(items, m + 1, Len(items)))

RECURSIVE ItemTokens(_, _)
ItemTokens(kind, items) ==
    IF items = <<>> THEN <<>>
    ELSE (IF kind = "dict"
            THEN <<KeyToken(items[1][1]), ":", AtomToken(items[1][2])>>
            ELSE <<AtomToken(items[1][2])>>)
         \o (IF Len(items) > 1 THEN <<",">> ELSE <<>>)
         \o ItemTokens(kind, Tail(items))

\* _serialize: model_dump() where there is one, then
\* json.dumps(value, indent=2, sort_keys=True, default=str)
_serialize(value) ==
    LET plain == IF value.kind = "model" THEN [value EXCEPT !.kind = "dict"] ELSE value
    IN CASE plain.kind = "atom" -> <<AtomToken(plain.atom)>>
         [] plain.kind = "dict" ->
               <<"{">> \o ItemTokens("dict", SortItems(plain.items)) \o <<"}">>
         [] OTHER -> <<"[">> \o ItemTokens("list", plain.items) \o <<"]">>

\* _deserialize: json.loads
_deserialize(json_str) ==
    CASE json_str[1] = "{" ->
            Container("dict",
                [i \in 1..((Len(json_str) - 1) \div 4) |->
                    <<TokenAtom(json_str[4 * i - 2]), TokenAtom(json_str[4 * i])>>])
      [] json_str[1] = "[" ->
            Container("list",
                [i \in 1..((Len(json_str) - 1) \div 2) |->
                    <<"", TokenAtom(json_str[2 * i])>>])
      [] OTHER -> Atom(TokenAtom(json_str[1]))

\* Python's == on atoms: True == 1
AtomEq(a, b) == a = b \/ {a, b} = {"True", "1"}

\* Python's == on decoded values
PyEq(x, y) ==
    /\ x.kind = y.kind
    /\ CASE x.kind = "atom" -> AtomEq(x.atom, y.atom)
         [] x.kind = "dict" ->
               /\ {x.items[i][1] : i \in 1..Len(x.items)}
                     = {y.items[i][1] : i \in 1..Len(y.items)}
               /\ \A i \in 1..Len(x.items) : \A j \in 1..Len(y.items) :
                     x.items[i][1] = y.items[j][1]
                        => AtomEq(x.items[i][2], y.items[j][2])
         [] OTHER ->
               /\ Len(x.items) = Len(y.items)
               /\ \A i \in 1..Len(x.items) : AtomEq(x.items[i][2], y.items[i][2])

\* snapshot_path.exists()
exists(path) == path \in DOMAIN files

\* snapshot_path.write_text(text)
write_text(path, text) ==
    [p \in DOMAIN files \cup {path} |-> IF p = path THEN text ELSE files[p]]

\* should_update that ignores the per-call argument
should_update_global(update) == update_snapshots

\* should_update = update if update is not None else self.update_snapshots
should_update(update) == IF update # None THEN update = "True" ELSE update_snapshots

\* assert_match: the snapshot is written rather than compared
Writes(path, update) == should_update(update) \/ ~exists(path)

\* the comparison inverted: actual == expected
Mismatch_inverted(expected_json, actual_json) ==
    PyEq(_deserialize(actual_json), _deserialize(expected_json))

\* assert_match: actual != expected, both decoded
Mismatch(expected_json, actual_json) ==
    ~PyEq(_deserialize(actual_json), _deserialize(expected_json))

NoText == <<>>
Outcome(kind, expected, actual) == [kind |-> kind, expected |-> expected, actual |-> actual]

\* pytest.skip() after every write
WriteVerdict_always_skip(update) == "Skipped"

\* assert_match after the write: pytest.skip() if should_update, else return
WriteVerdict(update) == IF should_update(update) THEN "Skipped" ELSE "passed"

\* a message that names the snapshot only
MismatchError_bare(expected_json, actual_json) ==
    Outcome("AssertionError", NoText, NoText)

\* assert_match: the AssertionError, with both texts in its message
MismatchError(expected_json, actual_json) ==
    Outcome("AssertionError", expected_json, actual_json)

\* the helper has not been called yet
NoCall == [op |-> None, value |-> Atom("1"), name |-> <<>>, update |-> None,
           existed |-> FALSE, differed |-> FALSE]

\* snapshot.assert_match(value, snapshot_name, update=update)
AssertMatch(value, snapshot_name, update) ==
    LET snapshot_path == _get_snapshot_path(node, snapshot_name)
        actual_json == _serialize(value)
    IN /\ last' = [op |-> "assert_match", value |-> value, name |-> snapshot_name,
                   update |-> update, existed |-> exists(snapshot_path),
                   differed |-> /\ exists(snapshot_path)
                                /\ ~PyEq(_deserialize(actual_json),
                                         _deserialize(files[snapshot_path]))]
       /\ IF Writes(snapshot_path, update)
            THEN /\ files' = write_text(snapshot_path, actual_json)
                 /\ verdict' = Outcome(WriteVerdict(update), NoText, NoText)
            ELSE /\ UNCHANGED files
                 /\ verdict' = IF Mismatch(files[snapshot_path], actual_json)
                                 THEN MismatchError(files[snapshot_path], actual_json)
                                 ELSE Outcome("passed", NoText, NoText)
       /\ UNCHANGED <<node, update_snapshots>>

\* the runner goes on to another test: its snapshot fixture builds a new helper
NewTest ==
    /\ node' \in NodeNames
    /\ update_snapshots' \in BOOLEAN
    /\ <<node', update_snapshots'>> # <<node, update_snapshots>>
    /\ last' = NoCall
    /\ verdict' = Outcome(None, NoText, NoText)
    /\ UNCHANGED files

UpdateArgs == {None, "True", "False"}

\* the values the parameterized instances pass
IdentityValues == { Atom("1"), Container("dict", << <<"'a'", "1">> >>) }

\* assert_match called by the test instance `node`: the writer of the record
\* is kept with it
AssertMatchBy(value, snapshot_name, update) ==
    LET snapshot_path == _get_snapshot_path(node, snapshot_name)
    IN /\ AssertMatch(value, snapshot_name, update)
       /\ author' = IF Writes(snapshot_path, update)
                       THEN [p \in DOMAIN author \cup {snapshot_path} |->
                               IF p = snapshot_path THEN <<node, snapshot_name>>
                               ELSE author[p]]
                       ELSE author

(***************************************************************************)
(* The assertion helpers.  A str is the sequence of its characters.        *)
(***************************************************************************)

\* Python values the helpers see
PyStr(chars) == [type |-> "str", val |-> chars]
PyInt(n) == [type |-> "int", val |-> n]
PyList(items) == [type |-> "list", val |-> items]
PyDict(f) == [type |-> "dict", val |-> f]
PyNone == [type |-> "NoneType", val |-> <<>>]

\* content items: one that has a text attribute, one that has none
TextContent(text) == [type |-> "TextContent", val |-> text]
ImageContent == [type |-> "ImageContent", val |-> <<>>]

\* hasattr(item, "text")
HasText(item) == item.type = "TextContent"

\* Python's == on these values
Equal(x, y) == x.type = y.type /\ x.val = y.val

\* a in b, that looks at the start of b only
IsSubstring_prefix(a, b) == Len(a) <= Len(b) /\ SubSeq(b, 1, Len(a)) = a

\* a in b, for two strs
IsSubstring(a, b) ==
    \E i \in 0..(Len(b) - Len(a)) : SubSeq(b, i + 1, i + Len(a)) = a

Digits == {"1", "2"}
DigitValue(d) == IF d = "1" THEN 1 ELSE 2

\* json.loads(text) does not raise JSONDecodeError: a number, a one-character
\* string, a list of one number or an object of one key and a number
JSONDecodes(text) ==
    \/ Len(text) = 1 /\ text[1] \in Digits
    \/ Len(text) = 3 /\ text[1] = "\"" /\ text[3] = "\"" /\ text[2] \notin {"\"", "\\"}
    \/ Len(text) = 3 /\ text[1] = "[" /\ text[2] \in Digits /\ text[3] = "]"
    \/ /\ Len(text) = 7
       /\ <<text[1], text[2], text[4], text[5], text[7]>> = <<"{", "\"", "\"", ":", "}">>
       /\ text[3] \notin {"\"", "\\"}
       /\ text[6] \in Digits

\* json.loads(text), where it decodes
json_loads(text) ==
    CASE Len(text) = 1 -> PyInt(DigitValue(text[1]))
      [] Len(text) = 3 /\ text[1] = "\"" -> PyStr(<<text[2]>>)
      [] Len(text) = 3 /\ text[1] = "[" -> PyList(<<PyInt(DigitValue(text[2]))>>)
      [] OTHER -> PyDict(<<text[3]>> :> PyInt(DigitValue(text[6])))

\* the actual value, with the text of a single item decoded where it decodes
Extract_decoded(content) ==
    IF Len(content) = 1
      THEN IF HasText(content[1])
             THEN IF JSONDecodes(content[1].val) THEN json_loads(content[1].val)
                                                ELSE PyStr(content[1].val)
             ELSE content[1]
      ELSE PyList([i \in 1..Len(content) |->
                     IF HasText(content[i]) THEN PyStr(content[i].val) ELSE content[i]])

\* the actual value of a non-empty result.content
Extract(content) ==
    IF Len(content) = 1
      THEN IF HasText(content[1]) THEN PyStr(content[1].val) ELSE content[1]
      ELSE PyList([i \in 1..Len(content) |->
                     IF HasText(content[i]) THEN PyStr(content[i].val) ELSE content[i]])

\* exact mode without the decoding of the text
Decoded_never(expected, actual) == actual

\* exact mode: the str actual is decoded when expected is a dict or a list and
\* json.loads does not raise
Decoded(expected, actual) ==
    IF expected.type \in {"dict", "list"} /\ actual.type = "str" /\ JSONDecodes(actual.val)
      THEN json_loads(actual.val)
      ELSE actual

Passed == [kind |-> "passed", message |-> ""]
Failed(message) == [kind |-> "AssertionError", message |-> message]

\* assert_tool_output_matches(result, expected, partial=partial).  In the
\* dict branch the first key that is missing or unequal decides the message;
\* the dicts passed here have one key.
assert_tool_output_matches(content, expected, partial) ==
    IF content = <<>> THEN Failed("Tool returned no content")
    ELSE LET actual == Extract(content)
         IN IF partial
              THEN CASE expected.type = "dict" /\ actual.type = "dict" ->
                          IF \E key \in DOMAIN expected.val : key \notin DOMAIN actual.val
                            THEN Failed("Expected key not found")
                          ELSE IF \E key \in DOMAIN expected.val :
                                     ~Equal(actual.val[key], expected.val[key])
                            THEN Failed("Expected key=value")
                          ELSE Passed
                     [] expected.type = "str" /\ actual.type = "str" ->
                          IF IsSubstring(expected.val, actual.val)
                            THEN Passed
                            ELSE Failed("Expected substring not found")
                     [] OTHER -> Failed("Partial matching not supported")
              ELSE IF Equal(Decoded(expected, actual), expected)
                     THEN Passed
                     ELSE Failed("Tool output mismatch")

\* An exception: its type and str(e)
Exc(type, message) == [type |-> type, message |-> message]

\* no exception
NoExc == [type |-> None, message |-> <<>>]

\* await client.call_tool(...) returned
Returned == [type |-> "returned", message |-> <<>>]

\* how await client.call_tool(...) can end: it returns, or raises
CallOutcomes ==
    {Returned} \cup
    { Exc(type, message) : type \in {"McpError", "RuntimeError", "AssertionError"},
                           message \in {<<"U", "n", "f">>, <<"T">>, <<>>} }

\* error_message: None or a str
ErrorMessages ==
    {PyNone} \cup {PyStr(chars) : chars \in {<<>>, <<"n", "f">>, <<"T">>, <<"f", "n">>}}

\* the message check left out
MessageMismatch_none(error_message, e) == FALSE

\* if error_message and error_message not in str(e)
MessageMismatch(error_message, e) ==
    /\ error_message # PyNone
    /\ error_message # PyStr(<<>>)
    /\ ~IsSubstring(error_message.val, e.message)

\* assert_tool_returns_error(client, tool_name, arguments, error_message=...),
\* given how its call_tool ended: what it raises, or the exception it returns
assert_tool_returns_error(called, error_message) ==
    IF called = Returned
      THEN [kind |-> "raise", e |-> Exc("AssertionError", <<"expected to raise">>),
            cause |-> NoExc]
    ELSE IF called.type = "AssertionError"
      THEN [kind |-> "raise", e |-> called, cause |-> NoExc]
    ELSE IF MessageMismatch(error_message, called)
      THEN [kind |-> "raise", e |-> Exc("AssertionError", <<"message doesn't match">>),
            cause |-> called]
    ELSE [kind |-> "return", e |-> called, cause |-> NoExc]

\* no assertion helper has been called
NoCheck == [op |-> None]

\* the texts the tools answer with, and the strs the tests expect
Texts ==
    { <<"1">>, <<"2">>, <<"H", "i", "!">>, <<"[", "1", "]">>,
      <<"{", "\"", "a", "\"", ":", "1", "}">>, <<"{", "a">> }

\* the items of a result: text items, an item without text, and a dict, which
\* a result built without validation holds as it is
Items == {TextContent(text) : text \in Texts} \cup {ImageContent, PyDict(<<"a">> :> PyInt(1))}

\* result.content: no item, one item, two items
Contents ==
    {<<>>} \cup {<<item>> : item \in Items}
           \cup {<<i1, i2>> : i1 \in {TextContent(<<"1">>), ImageContent}, i2 \in Items}

Expecteds ==
    {PyStr(text) : text \in Texts \cup {<<"i">>, <<"i", "H">>, <<>>}}
    \cup { PyInt(1), PyList(<<PyInt(1)>>), PyDict(<<"a">> :> PyInt(1)),
           PyDict(<<"a">> :> PyInt(2)), ImageContent, PyList(<<ImageContent>>),
           PyList(<<PyStr(<<"1">>), PyStr(<<"2">>)>>),
           PyList(<<PyStr(<<"1">>), ImageContent>>) }

\* await assert_tool_output_matches(result, expected, partial=partial)
OutputMatches ==
    \E content \in Contents : \E expected \in Expecteds : \E partial \in BOOLEAN :
        checked' = [op |-> "assert_tool_output_matches", content |-> content,
                    expected |-> expected, partial |-> partial,
                    outcome |-> assert_tool_output_matches(content, expected, partial)]

\* _ensure_connected(): the RuntimeError "Client is not connected. ..."
NotConnectedError == Exc("RuntimeError", <<"n", "o", "t">>)

\* await client.call_tool(name, arguments): the request is sent, and ends as
\* answer says, only when the client is connected
call_tool(connected, answer) == IF connected THEN answer ELSE NotConnectedError

\* await assert_tool_returns_error(client, name, arguments, error_message=...)
ReturnsError ==
    \E connected \in BOOLEAN : \E answer \in CallOutcomes :
      \E error_message \in ErrorMessages :
        LET called == call_tool(connected, answer)
        IN checked' = [op |-> "assert_tool_returns_error", connected |-> connected,
                       called |-> called, error_message |-> error_message,
                       outcome |-> assert_tool_returns_error(called, error_message)]

\* The snapshot names of the tests that read, delete and list their records.
RecordNames == { <<"b">>, <<"a", "_", "_", "b">>, <<"t", "_", "_", "b">> }

NoReturn == [op |-> None, name |-> <<>>, found |-> FALSE, value |-> Atom("1"),
             names |-> <<>>]

\* what get_snapshot returns: None, or the decoded value
ReturnValue(name, found, value) ==
    [op |-> "get_snapshot", name |-> name, found |-> found, value |-> value,
     names |-> <<>>]

\* path.stem: the file name without its last suffix
stem(path) == SubSeq(path, 1, Len(path) - 1)

\* self.snapshot_dir.glob(f"{test_name}__*.json") yields path
glob(test_name, path) ==
    LET prefix == test_name \o <<"_", "_">>
    IN /\ Len(stem(path)) >= Len(prefix)
       /\ SubSeq(path, 1, Len(prefix)) = prefix
       /\ path[Len(path)] = ".json"

\* s.replace(old, ""): every occurrence of old is removed, left to right
RECURSIVE replace(_, _)
replace(s, old) ==
    IF Len(s) < Len(old) THEN s
    ELSE IF SubSeq(s, 1, Len(old)) = old
           THEN replace(SubSeq(s, Len(old) + 1, Len(s)), old)
           ELSE <<s[1]>> \o replace(Tail(s), old)

\* the order of the characters (ord)
Ord(c) ==
    CASE c = "[" -> 91 [] c = "]" -> 93 [] c = "_" -> 95 [] c = "1" -> 49
      [] c = "a" -> 97 [] c = "b" -> 98 [] c = "t" -> 116 [] OTHER -> 0

\* a <= b for str
RECURSIVE StrLeq(_, _)
StrLeq(a, b) ==
    IF a = <<>> THEN TRUE
    ELSE IF b = <<>> THEN FALSE
    ELSE IF a[1] = b[1] THEN StrLeq(Tail(a), Tail(b))
    ELSE Ord(a[1]) < Ord(b[1])

\* sorted(snapshots), snapshots holding one name for each path of paths
RECURSIVE sorted(_, _)
sorted(paths, test_name) ==
    IF paths = {} THEN <<>>
    ELSE LET name(p) == replace(stem(p), test_name \o <<"_", "_">>)
             first == CHOOSE p \in paths : \A q \in paths : StrLeq(name(p), name(q))
         IN <<name(first)>> \o sorted(paths \ {first}, test_name)

\* `last` and `verdict` tell of an assert_match that was the helper's last
\* call: a call of another method is none
Unasserted == last' = NoCall /\ verdict' = Outcome(None, NoText, NoText)

\* snapshot.get_snapshot(snapshot_name)
get_snapshot(snapshot_name) ==
    LET snapshot_path == _get_snapshot_path(node, snapshot_name)
    IN /\ ret' = IF ~exists(snapshot_path)
                   THEN ReturnValue(snapshot_name, FALSE, Atom("1"))
                   ELSE ReturnValue(snapshot_name, TRUE, _deserialize(files[snapshot_path]))
       /\ Unasserted
       /\ UNCHANGED <<files, author, node, update_snapshots>>

\* snapshot.delete_snapshot(snapshot_name): unlink() removes the file, and the
\* note of who wrote it goes with it
delete_snapshot(snapshot_name) ==
    LET snapshot_path == _get_snapshot_path(node, snapshot_name)
    IN /\ ret' = [NoReturn EXCEPT !.op = "delete_snapshot", !.name = snapshot_name]
       /\ files' = IF exists(snapshot_path)
                     THEN [p \in DOMAIN files \ {snapshot_path} |-> files[p]]
                     ELSE files
       /\ author' = [p \in DOMAIN author \ {snapshot_path} |-> author[p]]
       /\ Unasserted
       /\ UNCHANGED <<node, update_snapshots>>

\* snapshot.list_snapshots()
list_snapshots ==
    LET test_name == SplitBracket(node)
    IN /\ ret' = [NoReturn EXCEPT
                    !.op = "list_snapshots",
                    !.names = sorted({p \in DOMAIN files : glob(test_name, p)}, test_name)]
       /\ Unasserted
       /\ UNCHANGED <<files, author, node, update_snapshots>>

\* assert_match called by a test: the test identity, the name and the value it
\* passed are kept with the record it writes
AssertMatchOf(value, snapshot_name, update) ==
    LET snapshot_path == _get_snapshot_path(node, snapshot_name)
    IN /\ AssertMatch(value, snapshot_name, update)
       /\ author' = IF Writes(snapshot_path, update)
                       THEN [p \in DOMAIN author \cup {snapshot_path} |->
                               IF p = snapshot_path
                                 THEN <<SplitBracket(node), snapshot_name, value>>
                               ELSE author[p]]
                       ELSE author
       /\ ret' = NoReturn

\* the runner goes on to another test, whose helper has returned nothing yet
NewTestOf == NewTest /\ ret' = NoReturn /\ UNCHANGED author

\* The texts the tests pass to assert_match_text, by their characters; CR and
\* LF are the carriage return and the line feed.
SnapshotTexts == { <<"a">>, <<"a", "LF">>, <<"a", "CR">>, <<"a", "CR", "LF">> }

TextNames == { <<"b">> }

TextValue(text) == [kind |-> "text", atom |-> "", items |-> text]

\* snapshot_path.with_suffix(suffix): the last suffix replaced
with_suffix(path, suffix) == SubSeq(path, 1, Len(path) - 1) \o <<suffix>>

\* snapshot_path.read_text() of a file holding `text`: the file is opened in
\* text mode with universal newlines, so CR LF and a lone CR are read as LF.
\* (write_text translates LF to os.linesep, which is LF here.)
RECURSIVE read_text(_)
read_text(text) ==
    IF text = <<>> THEN <<>>
    ELSE IF text[1] = "CR"
           THEN IF Len(text) > 1 /\ text[2] = "LF"
                  THEN <<"LF">> \o read_text(SubSeq(text, 3, Len(text)))
                  ELSE <<"LF">> \o read_text(Tail(text))
           ELSE <<text[1]>> \o read_text(Tail(text))

\* snapshot.assert_match_text(text, snapshot_name, update=update)
assert_match_text(text, snapshot_name, update) ==
    LET snapshot_path == with_suffix(_get_snapshot_path(node, snapshot_name), ".txt")
    IN /\ last' = [op |-> "assert_match_text", value |-> TextValue(text),
                   name |-> snapshot_name, update |-> update,
                   existed |-> exists(snapshot_path),
                   differed |-> exists(snapshot_path) /\ text # files[snapshot_path]]
       /\ IF should_update(update) \/ ~exists(snapshot_path)
            THEN /\ files' = write_text(snapshot_path, text)
                 /\ verdict' = Outcome(WriteVerdict(update), NoText, NoText)
            ELSE /\ UNCHANGED files
                 /\ verdict' = LET expected_text == read_text(files[snapshot_path])
                               IN IF text # expected_text
                                    THEN Outcome("AssertionError", expected_text, text)
                                    ELSE Outcome("passed", NoText, NoText)
       /\ UNCHANGED <<node, update_snapshots>>

\* A test body: the assert_match calls it makes, in order, each with the name
\* and the value it passes.
BodyCalls == { [name |-> n, value |-> v] : n \in SnapshotNames, v \in IdentityValues }

BodyPlans ==
    { <<c>> : c \in BodyCalls }
      \cup { p \in BodyCalls \X BodyCalls : p[1].name # p[2].name }

NoBody == [at |-> "idle", plan |-> <<>>, i |-> 0, report |-> None]

\* assert_match returned: the body goes on to its next statement; Skipped and
\* AssertionError are raised through the body and end it
Proceeds(kind) == kind = "passed"

\* pytest runs a test function that has the snapshot fixture
RunTest ==
    /\ body.at = "idle"
    /\ node' \in NodeNames
    /\ update_snapshots' \in BOOLEAN
    /\ last' = NoCall
    /\ verdict' = Outcome(None, NoText, NoText)
    /\ \E plan \in BodyPlans :
         body' = [at |-> "running", plan |-> plan, i |-> 1, report |-> None]
    /\ UNCHANGED files

\* the next statement of the body: snapshot.assert_match(value, name)
BodyAssert ==
    /\ body.at = "running"
    /\ LET c == body.plan[body.i]
       IN /\ AssertMatch(c.value, c.name, None)
          /\ body' = IF Proceeds(verdict'.kind) /\ body.i < Len(body.plan)
                        THEN [body EXCEPT !.i = @ + 1]
                        ELSE [body EXCEPT !.at = "idle", !.report = verdict'.kind]

(***************************************************************************)
(* assertions.py, continued: assert_tools_have_unique_names.               *)
(***************************************************************************)
\* Tools one server lists.
MaxTools == 3

ToolNames == {"tool1", "tool2", "dup"}

\* the listings await client.list_tools() returns, by the names of the tools
Listings == UNION { [1..n -> ToolNames] : n \in 0..MaxTools }

\* tool_names.count(name)
Count(tool_names, name) == Cardinality({i \in 1..Len(tool_names) : tool_names[i] = name})

\* every listed name taken for a duplicate
Duplicates_all(tool_names) == {tool_names[i] : i \in 1..Len(tool_names)}

\* set(name for name in tool_names if tool_names.count(name) > 1)
Duplicates(tool_names) ==
    {tool_names[i] : i \in {j \in 1..Len(tool_names) : Count(tool_names, tool_names[j]) > 1}}

\* assert_tools_have_unique_names(client), given the listing: it returns, or
\* raises the AssertionError that names the duplicates
assert_tools_have_unique_names(tool_names) ==
    IF Len(tool_names) # Cardinality({tool_names[i] : i \in 1..Len(tool_names)})
      THEN [kind |-> "AssertionError", names |-> Duplicates(tool_names)]
      ELSE [kind |-> "passed", names |-> {}]

\* await assert_tools_have_unique_names(client)
UniqueNames ==
    \E tool_names \in Listings :
        checked' = [op |-> "assert_tools_have_unique_names", tool_names |-> tool_names,
                    outcome |-> assert_tools_have_unique_names(tool_names)]

(***************************************************************************)
(* utils.py: retry_on_failure.  The wrapped coroutine function is the      *)
(* environment: each invocation returns, raises an Exception, or raises a  *)
(* BaseException that is no Exception (asyncio.CancelledError).  An        *)
(* exception is known by the invocation that raised it.  Delays and        *)
(* backoffs are whole seconds.                                             *)
(***************************************************************************)
MaxAttempts == 3

Delays == {0, 1}

Backoffs == {1, 2}

FuncOutcomes == {"ok", "Exception", "BaseException"}

\* last_exception = None
NoException == [kind |-> "None", of |-> 0]

\* the exception of kind `kind` that invocation number `of` raised; `of` is 0
\* for an exception no invocation raised
Raises(kind, of) == [kind |-> kind, of |-> of]

NotEnded == [kind |-> "none", value |-> 0, exc |-> NoException]

Returns(value) == [kind |-> "returned", value |-> value, exc |-> NoException]

Raising(e) == [kind |-> "raised", value |-> 0, exc |-> e]

RetryIdle ==
    [pc |-> "idle", max_attempts |-> 0, delay |-> 0, backoff |-> 1, attempt |-> 0,
     current_delay |-> 0, last_exception |-> NoException, calls |-> <<>>,
     slept |-> <<>>, outcome |-> NotEnded]

\* a loop that runs one more time than range(max_attempts)
InRange_inclusive(attempt, max_attempts) == attempt <= max_attempts

\* for attempt in range(max_attempts): there is a next value
InRange(attempt, max_attempts) == attempt < max_attempts

\* raise last_exception: raising None is a TypeError
raise_last(last_exception) ==
    IF last_exception = NoException THEN Raises("TypeError", 0) ELSE last_exception

\* await wrapper(*args, **kwargs) of a function decorated with
\* retry_on_failure(max_attempts, delay, backoff)
RetryCall ==
    /\ retry.pc = "idle"
    /\ \E max_attempts \in 0..MaxAttempts, delay \in Delays, backoff \in Backoffs :
         retry' = [pc |-> "for", max_attempts |-> max_attempts, delay |-> delay,
                   backoff |-> backoff, attempt |-> 0, current_delay |-> delay,
                   last_exception |-> NoException, calls |-> <<>>, slept |-> <<>>,
                   outcome |-> NotEnded]

\* the head of the for loop, and the raise after it
RetryFor ==
    /\ retry.pc = "for"
    /\ IF InRange(retry.attempt, retry.max_attempts)
         THEN retry' = [retry EXCEPT !.pc = "func"]
         ELSE retry' = [retry EXCEPT !.pc = "idle",
                                     !.outcome = Raising(raise_last(retry.last_exception))]

\* return await func(*args, **kwargs), and the handler's assignment and test
RetryFunc ==
    /\ retry.pc = "func"
    /\ \E r \in FuncOutcomes :
         LET calls == Append(retry.calls, r)
             n == Len(calls)
         IN CASE r = "ok" ->
                   retry' = [retry EXCEPT !.calls = calls, !.pc = "idle",
                                          !.outcome = Returns(n)]
              [] r = "Exception" ->
                   retry' = [retry EXCEPT !.calls = calls,
                                          !.last_exception = Raises("Exception", n),
                                          !.pc = IF retry.attempt < retry.max_attempts - 1
                                                   THEN "sleep" ELSE "for",
                                          !.attempt = IF retry.attempt < retry.max_attempts - 1
                                                        THEN @ ELSE @ + 1]
              [] r = "BaseException" ->
                   retry' = [retry EXCEPT !.calls = calls, !.pc = "idle",
                                          !.outcome = Raising(Raises("BaseException", n))]

\* a delay that grows by addition
Grown_additive(current_delay, backoff) == current_delay + backoff

\* current_delay *= backoff
Grown(current_delay, backoff) == current_delay * backoff

\* await asyncio.sleep(current_delay); current_delay *= backoff
RetrySleep ==
    /\ retry.pc = "sleep"
    /\ retry' = [retry EXCEPT !.slept = Append(@, retry.current_delay),
                              !.current_delay = Grown(@, retry.backoff),
                              !.attempt = @ + 1,
                              !.pc = "for"]

(***************************************************************************)
(* client.py: connect() calls on one MockMCPClient that overlap.  Call k   *)
(* is a coroutine of its own; the steps are the stretches of connect()     *)
(* between two awaits.  The AsyncExitStack that call k creates is stack k; *)
(* it lives on when self._exit_stack is assigned another.  The exits of    *)
(* the scopes do not raise here (SpecSession has the exits that raise).    *)
(***************************************************************************)
MaxConnects == 2

Calls == 1..MaxConnects

Suspended == {"stdio_client", "ClientSession", "initialize", "aclose"}

NoOverlap ==
    [_session |-> 0, _exit_stack |-> 0,
     stacks |-> [k \in Calls |-> <<>>],
     cpc |-> [k \in Calls |-> "new"],
     target |-> [k \in Calls |-> 0],
     fails |-> [k \in Calls |-> "healthy"],
     transport |-> [k \in Calls |-> FALSE],
     handshake |-> [k \in Calls |-> FALSE],
     returned |-> [k \in Calls |-> None],
     overlapped |-> [k \in Calls |-> None],
     dpc |-> "new", dtarget |-> 0]

\* except Exception as e: if self._exit_stack: await self._exit_stack.aclose();
\* with no stack the fields are dropped and ConnectionError raised at once
Handler(o, k) ==
    IF o._exit_stack # 0
      THEN [o EXCEPT !.cpc[k] = "aclose", !.target[k] = o._exit_stack]
      ELSE [o EXCEPT !.cpc[k] = "done", !._session = 0, !.returned[k] = "ConnectionError"]

\* the exit callback on top of stack x is popped and not run
Popped_unrun(o, x) ==
    [o EXCEPT !.stacks[x] = SubSeq(@, 1, Len(@) - 1)]

\* the exit callback on top of stack x is popped and run
Popped(o, x) ==
    LET cbs == o.stacks[x]
        cb == cbs[Len(cbs)]
    IN [o EXCEPT !.stacks[x] = SubSeq(cbs, 1, Len(cbs) - 1),
                 !.transport[cb[2]] = IF cb[1] = "stdio_client" THEN FALSE ELSE @,
                 !.handshake[cb[2]] = IF cb[1] = "ClientSession" THEN FALSE ELSE @]

\* connect() of call k, to its first await: the early return, or a new stack
\* and the await of stdio_client
OverlapConnect(k) ==
    /\ overlap.cpc[k] = "new"
    /\ overlap.dpc = "new"
    /\ \A j \in 1..(k - 1) : overlap.cpc[j] # "new"
    /\ \E f \in ServerConditions :
         LET at == IF \E j \in Calls : overlap.cpc[j] \in Suspended
                     THEN (CHOOSE j \in Calls : overlap.cpc[j] \in Suspended
                             /\ \A i \in Calls : overlap.cpc[i] \in Suspended => i <= j)
                     ELSE 0
             o == [overlap EXCEPT !.overlapped[k] =
                     IF at = 0 THEN "no" ELSE overlap.cpc[at], !.fails[k] = f]
         IN overlap' = IF o._session # 0
                         THEN [o EXCEPT !.cpc[k] = "done", !.returned[k] = "ok"]
                         ELSE [o EXCEPT !._exit_stack = k, !.target[k] = k,
                                        !.cpc[k] = "stdio_client"]

\* call k resumes from stdio_client: the callback is on the stack the await
\* was started on; ClientSession is entered on what self._exit_stack is now
OverlapSpawn(k) ==
    /\ overlap.cpc[k] = "stdio_client"
    /\ overlap' =
         IF overlap.fails[k] = "spawn_fails" THEN Handler(overlap, k)
         ELSE LET o == [overlap EXCEPT
                          !.transport[k] = TRUE,
                          !.stacks[overlap.target[k]] = Append(@, <<"stdio_client", k>>)]
              IN IF o._exit_stack = 0 THEN Handler(o, k)
                 ELSE [o EXCEPT !.target[k] = o._exit_stack, !.cpc[k] = "ClientSession"]

\* call k resumes from ClientSession: self._session = session, then the await
\* of initialize()
OverlapOpen(k) ==
    /\ overlap.cpc[k] = "ClientSession"
    /\ overlap' =
         IF overlap.fails[k] = "open_fails" THEN Handler(overlap, k)
         ELSE [overlap EXCEPT
                 !.handshake[k] = TRUE,
                 !.stacks[overlap.target[k]] = Append(@, <<"ClientSession", k>>),
                 !._session = k,
                 !.cpc[k] = "initialize"]

\* call k resumes from initialize()
OverlapInitialize(k) ==
    /\ overlap.cpc[k] = "initialize"
    /\ overlap' =
         IF overlap.fails[k] = "initialize_fails" THEN Handler(overlap, k)
         ELSE [overlap EXCEPT !.cpc[k] = "done", !.returned[k] = "ok"]

\* the aclose() of call k's handler: one callback more, or the end of it and
\* the rest of the handler
OverlapExit(k) ==
    /\ overlap.cpc[k] = "aclose"
    /\ overlap' =
         IF overlap.stacks[overlap.target[k]] # <<>>
           THEN Popped(overlap, overlap.target[k])
           ELSE [overlap EXCEPT !._exit_stack = 0, !._session = 0, !.cpc[k] = "done",
                                !.returned[k] = "ConnectionError"]

\* disconnect() once every connect() has ended, to the await of aclose()
OverlapDisconnect ==
    /\ overlap.dpc = "new"
    /\ overlap.cpc[1] # "new"
    /\ \A k \in Calls : overlap.cpc[k] \in {"new", "done"}
    /\ overlap' =
         IF overlap._exit_stack # 0
           THEN [overlap EXCEPT !.dpc = "aclose", !.dtarget = overlap._exit_stack]
           ELSE [overlap EXCEPT !.dpc = "done", !._session = 0]

\* the aclose() of disconnect(), and the rest of disconnect()
OverlapDisconnectExit ==
    /\ overlap.dpc = "aclose"
    /\ overlap' =
         IF overlap.stacks[overlap.dtarget] # <<>>
           THEN Popped(overlap, overlap.dtarget)
           ELSE [overlap EXCEPT !._exit_stack = 0, !._session = 0, !.dpc = "done"]

(***************************************************************************)
(* The specifications: a test that drives one Session, a test that drives  *)
(* one lifecycle manager, and tests that use the snapshot fixture.         *)
(***************************************************************************)

\* no MockMCPClient has been constructed
SessionInit ==
    /\ clients = <<>>
    /\ procs = <<>>
    /\ opened = <<>>
    /\ handshaken = <<>>
    /\ pc = "idle"
    /\ call = [op |-> None, self |-> 0, uri |-> None]
    /\ server = "healthy"
    /\ exc = None
    /\ pending_raise = FALSE
    /\ sent = 0
    /\ result = Ended(None, None, None)
    /\ prev = Ended(None, None, None)

\* MCPTestServer.__init__
ManagerIdle ==
    /\ _client = 0
    /\ mpc = "idle"
    /\ mop = None
    /\ mresult = [op |-> None, outcome |-> None, cause |-> None]
    /\ got = [outcome |-> None, client |-> 0]

\* SnapshotHelper.__init__ for test t, on an empty snapshot directory
HelperIdle ==
    /\ files = <<>>
    /\ node = <<"t">>
    /\ update_snapshots = FALSE
    /\ last = NoCall
    /\ verdict = Outcome(None, NoText, NoText)
    /\ author = <<>>
    /\ ret = NoReturn

\* MCPTestServerFactory.__init__
FactoryIdle ==
    /\ managers = <<>>
    /\ _servers = <<>>
    /\ fpc = FIdle
    /\ fresult = NoSweep

\* the test has constructed its MockMCPClient
InitSession ==
    /\ clients = <<NewClient>>
    /\ procs = <<0>>
    /\ opened = <<0>>
    /\ handshaken = <<FALSE>>
    /\ pc = "idle"
    /\ call = [op |-> None, self |-> 1, uri |-> None]
    /\ server = "healthy"
    /\ exc = None
    /\ pending_raise = FALSE
    /\ sent = 0
    /\ result = Ended(None, None, None)
    /\ prev = Ended(None, None, None)
    /\ ManagerIdle
    /\ HelperIdle
    /\ FactoryIdle
    /\ checked = NoCheck
    /\ retry = RetryIdle
    /\ overlap = NoOverlap
    /\ body = NoBody

NextSession ==
    \/ (Connect /\ UNCHANGED <<mvars, hvars, fvars, avars, rvars, cvars, bvars>>)
    \/ (Disconnect /\ UNCHANGED <<mvars, hvars, fvars, avars, rvars, cvars, bvars>>)
    \/ (Request /\ UNCHANGED <<mvars, hvars, fvars, avars, rvars, cvars, bvars>>)
    \/ (ConnectEntry /\ UNCHANGED <<mvars, hvars, fvars, avars, rvars, cvars, bvars>>)
    \/ (SpawnTransport /\ UNCHANGED <<mvars, hvars, fvars, avars, rvars, cvars, bvars>>)
    \/ (OpenSession /\ UNCHANGED <<mvars, hvars, fvars, avars, rvars, cvars, bvars>>)
    \/ (Initialize /\ UNCHANGED <<mvars, hvars, fvars, avars, rvars, cvars, bvars>>)
    \/ (ConnectExcept /\ UNCHANGED <<mvars, hvars, fvars, avars, rvars, cvars, bvars>>)
    \/ (ConnectFail /\ UNCHANGED <<mvars, hvars, fvars, avars, rvars, cvars, bvars>>)
    \/ (ExitCallback /\ UNCHANGED <<mvars, hvars, fvars, avars, rvars, cvars, bvars>>)
    \/ (ExitStackDone /\ UNCHANGED <<mvars, hvars, fvars, avars, rvars, cvars, bvars>>)
    \/ (DisconnectEntry /\ UNCHANGED <<mvars, hvars, fvars, avars, rvars, cvars, bvars>>)
    \/ (DisconnectEnd /\ UNCHANGED <<mvars, hvars, fvars, avars, rvars, cvars, bvars>>)
    \/ (RequestEntry /\ UNCHANGED <<mvars, hvars, fvars, avars, rvars, cvars, bvars>>)
    \/ (Reply /\ UNCHANGED <<mvars, hvars, fvars, avars, rvars, cvars, bvars>>)

SpecSession == InitSession /\ [][NextSession]_vars

InitManager ==
    /\ SessionInit
    /\ ManagerIdle
    /\ HelperIdle
    /\ FactoryIdle
    /\ checked = NoCheck
    /\ retry = RetryIdle
    /\ overlap = NoOverlap
    /\ body = NoBody

NextManager ==
    \/ (Start /\ UNCHANGED <<hvars, fvars, avars, rvars, cvars, bvars>>)
    \/ (StartResume /\ UNCHANGED <<hvars, fvars, avars, rvars, cvars, bvars>>)
    \/ (StartFail /\ UNCHANGED <<hvars, fvars, avars, rvars, cvars, bvars>>)
    \/ (Stop /\ UNCHANGED <<hvars, fvars, avars, rvars, cvars, bvars>>)
    \/ (StopResume /\ UNCHANGED <<hvars, fvars, avars, rvars, cvars, bvars>>)
    \/ (Restart /\ UNCHANGED <<hvars, fvars, avars, rvars, cvars, bvars>>)
    \/ (GetClient /\ UNCHANGED <<hvars, fvars, avars, rvars, cvars, bvars>>)
    \/ (WaitForReady /\ UNCHANGED <<hvars, fvars, avars, rvars, cvars, bvars>>)
    \/ (WaitResume /\ UNCHANGED <<hvars, fvars, avars, rvars, cvars, bvars>>)
    \/ (RequestEntry /\ UNCHANGED <<mvars, hvars, fvars, avars, rvars, cvars, bvars>>)
    \/ (Reply /\ UNCHANGED <<mvars, hvars, fvars, avars, rvars, cvars, bvars>>)
    \/ (ConnectEntry /\ UNCHANGED <<mvars, hvars, fvars, avars, rvars, cvars, bvars>>)
    \/ (SpawnTransport /\ UNCHANGED <<mvars, hvars, fvars, avars, rvars, cvars, bvars>>)
    \/ (OpenSession /\ UNCHANGED <<mvars, hvars, fvars, avars, rvars, cvars, bvars>>)
    \/ (Initialize /\ UNCHANGED <<mvars, hvars, fvars, avars, rvars, cvars, bvars>>)
    \/ (ConnectExcept /\ UNCHANGED <<mvars, hvars, fvars, avars, rvars, cvars, bvars>>)
    \/ (ConnectFail /\ UNCHANGED <<mvars, hvars, fvars, avars, rvars, cvars, bvars>>)
    \/ (ExitCallback /\ UNCHANGED <<mvars, hvars, fvars, avars, rvars, cvars, bvars>>)
    \/ (ExitStackDone /\ UNCHANGED <<mvars, hvars, fvars, avars, rvars, cvars, bvars>>)
    \/ (DisconnectEntry /\ UNCHANGED <<mvars, hvars, fvars, avars, rvars, cvars, bvars>>)
    \/ (DisconnectEnd /\ UNCHANGED <<mvars, hvars, fvars, avars, rvars, cvars, bvars>>)

SpecManager == InitManager /\ [][NextManager]_vars

\* The steps of the program itself are taken when they can be; the server
\* need not answer a request.
SpecManagerLive ==
    /\ InitManager
    /\ [][NextManager]_vars
    /\ WF_vars(RequestEntry /\ UNCHANGED <<mvars, hvars, fvars, avars, rvars, cvars, bvars>>)
    /\ WF_vars(WaitResume /\ UNCHANGED <<hvars, fvars, avars, rvars, cvars, bvars>>)

\* A test that creates managers from one factory, starts them and sweeps them.
InitFactory ==
    /\ SessionInit
    /\ ManagerIdle
    /\ HelperIdle
    /\ FactoryIdle
    /\ checked = NoCheck
    /\ retry = RetryIdle
    /\ overlap = NoOverlap
    /\ body = NoBody

NextFactory ==
    \/ (create /\ UNCHANGED <<svars, mvars, hvars, avars, rvars, cvars, bvars>>)
    \/ (\E k \in 1..MaxServers : ManagerStart(k) /\ UNCHANGED <<mvars, hvars, avars, rvars, cvars, bvars>>)
    \/ (ManagerStartResume /\ UNCHANGED <<mvars, hvars, avars, rvars, cvars, bvars>>)
    \/ (ManagerStartFail /\ UNCHANGED <<mvars, hvars, avars, rvars, cvars, bvars>>)
    \/ (stop_all /\ UNCHANGED <<mvars, hvars, avars, rvars, cvars, bvars>>)
    \/ (StopAllNext /\ UNCHANGED <<mvars, hvars, avars, rvars, cvars, bvars>>)
    \/ (StopAllResume /\ UNCHANGED <<mvars, hvars, avars, rvars, cvars, bvars>>)
    \/ (ConnectEntry /\ UNCHANGED <<mvars, hvars, fvars, avars, rvars, cvars, bvars>>)
    \/ (SpawnTransport /\ UNCHANGED <<mvars, hvars, fvars, avars, rvars, cvars, bvars>>)
    \/ (OpenSession /\ UNCHANGED <<mvars, hvars, fvars, avars, rvars, cvars, bvars>>)
    \/ (Initialize /\ UNCHANGED <<mvars, hvars, fvars, avars, rvars, cvars, bvars>>)
    \/ (ConnectExcept /\ UNCHANGED <<mvars, hvars, fvars, avars, rvars, cvars, bvars>>)
    \/ (ConnectFail /\ UNCHANGED <<mvars, hvars, fvars, avars, rvars, cvars, bvars>>)
    \/ (ExitCallback /\ UNCHANGED <<mvars, hvars, fvars, avars, rvars, cvars, bvars>>)
    \/ (ExitStackDone /\ UNCHANGED <<mvars, hvars, fvars, avars, rvars, cvars, bvars>>)
    \/ (DisconnectEntry /\ UNCHANGED <<mvars, hvars, fvars, avars, rvars, cvars, bvars>>)
    \/ (DisconnectEnd /\ UNCHANGED <<mvars, hvars, fvars, avars, rvars, cvars, bvars>>)

SpecFactory == InitFactory /\ [][NextFactory]_vars

\* Tests that call the assertion helpers.
InitAssertions ==
    /\ SessionInit
    /\ ManagerIdle
    /\ HelperIdle
    /\ FactoryIdle
    /\ checked = NoCheck
    /\ retry = RetryIdle
    /\ overlap = NoOverlap
    /\ body = NoBody

NextAssertions ==
    \/ (OutputMatches /\ UNCHANGED <<svars, mvars, hvars, fvars, rvars, cvars, bvars>>)
    \/ (ReturnsError /\ UNCHANGED <<svars, mvars, hvars, fvars, rvars, cvars, bvars>>)
    \/ (UniqueNames /\ UNCHANGED <<svars, mvars, hvars, fvars, rvars, cvars, bvars>>)

SpecAssertions == InitAssertions /\ [][NextAssertions]_vars

\* utils.py: calls of one retry_on_failure wrapper, one after the other.
InitRetry ==
    /\ SessionInit
    /\ ManagerIdle
    /\ HelperIdle
    /\ FactoryIdle
    /\ checked = NoCheck
    /\ retry = RetryIdle
    /\ overlap = NoOverlap
    /\ body = NoBody

NextRetry ==
    \/ (RetryCall /\ UNCHANGED <<svars, mvars, hvars, fvars, avars, cvars, bvars>>)
    \/ (RetryFor /\ UNCHANGED <<svars, mvars, hvars, fvars, avars, cvars, bvars>>)
    \/ (RetryFunc /\ UNCHANGED <<svars, mvars, hvars, fvars, avars, cvars, bvars>>)
    \/ (RetrySleep /\ UNCHANGED <<svars, mvars, hvars, fvars, avars, cvars, bvars>>)

SpecRetry == InitRetry /\ [][NextRetry]_vars

InitSnapshot ==
    /\ SessionInit
    /\ ManagerIdle
    /\ HelperIdle
    /\ FactoryIdle
    /\ checked = NoCheck
    /\ retry = RetryIdle
    /\ overlap = NoOverlap
    /\ body = NoBody

NextSnapshot ==
    \/ (NewTest /\ UNCHANGED <<svars, mvars, author, ret, fvars, avars, rvars, cvars, bvars>>)
    \/ (\E v \in Values : \E n \in SnapshotNames : \E u \in UpdateArgs :
           AssertMatch(v, n, u) /\ UNCHANGED <<svars, mvars, author, ret, fvars, avars, rvars, cvars, bvars>>)

SpecSnapshot == InitSnapshot /\ [][NextSnapshot]_vars

\* Parameterized instances of one test and another test share the snapshot
\* directory; who wrote each record is kept.
InitIdentity ==
    /\ SessionInit
    /\ ManagerIdle
    /\ HelperIdle
    /\ FactoryIdle
    /\ checked = NoCheck
    /\ retry = RetryIdle
    /\ overlap = NoOverlap
    /\ body = NoBody

NextIdentity ==
    \/ (NewTest /\ UNCHANGED <<svars, mvars, author, ret, fvars, avars, rvars, cvars, bvars>>)
    \/ (\E v \in IdentityValues : \E n \in SnapshotNames : \E u \in UpdateArgs :
           AssertMatchBy(v, n, u) /\ UNCHANGED <<svars, mvars, ret, fvars, avars, rvars, cvars, bvars>>)

SpecIdentity == InitIdentity /\ [][NextIdentity]_vars

\* Tests that share the snapshot directory write, read, delete and list
\* their records.
InitRecords ==
    /\ SessionInit
    /\ ManagerIdle
    /\ HelperIdle
    /\ FactoryIdle
    /\ checked = NoCheck
    /\ retry = RetryIdle
    /\ overlap = NoOverlap
    /\ body = NoBody

NextRecords ==
    \/ (NewTestOf /\ UNCHANGED <<svars, mvars, fvars, avars, rvars, cvars, bvars>>)
    \/ (\E v \in IdentityValues : \E n \in RecordNames : \E u \in UpdateArgs :
           AssertMatchOf(v, n, u) /\ UNCHANGED <<svars, mvars, fvars, avars, rvars, cvars, bvars>>)
    \/ (\E n \in RecordNames : get_snapshot(n) /\ UNCHANGED <<svars, mvars, fvars, avars, rvars, cvars, bvars>>)
    \/ (\E n \in RecordNames : delete_snapshot(n) /\ UNCHANGED <<svars, mvars, fvars, avars, rvars, cvars, bvars>>)
    \/ (list_snapshots /\ UNCHANGED <<svars, mvars, fvars, avars, rvars, cvars, bvars>>)

SpecRecords == InitRecords /\ [][NextRecords]_vars

\* Tests keep a text record and a JSON record under one snapshot name.
InitText ==
    /\ SessionInit
    /\ ManagerIdle
    /\ HelperIdle
    /\ FactoryIdle
    /\ checked = NoCheck
    /\ retry = RetryIdle
    /\ overlap = NoOverlap
    /\ body = NoBody

NextText ==
    \/ (NewTest /\ UNCHANGED <<svars, mvars, author, ret, fvars, avars, rvars, cvars, bvars>>)
    \/ (\E v \in IdentityValues : \E n \in TextNames : \E u \in UpdateArgs :
           AssertMatch(v, n, u) /\ UNCHANGED <<svars, mvars, author, ret, fvars, avars, rvars, cvars, bvars>>)
    \/ (\E t \in SnapshotTexts : \E n \in TextNames : \E u \in UpdateArgs :
           assert_match_text(t, n, u)
             /\ UNCHANGED <<svars, mvars, author, ret, fvars, avars, rvars, cvars, bvars>>)

SpecText == InitText /\ [][NextText]_vars

\* client.py: connect() calls on one client that may overlap, then disconnect().
InitOverlap ==
    /\ SessionInit
    /\ ManagerIdle
    /\ HelperIdle
    /\ FactoryIdle
    /\ checked = NoCheck
    /\ retry = RetryIdle
    /\ overlap = NoOverlap
    /\ body = NoBody

NextOverlap ==
    \/ (\E k \in Calls : OverlapConnect(k)
           /\ UNCHANGED <<svars, mvars, hvars, fvars, avars, rvars, bvars>>)
    \/ (\E k \in Calls : OverlapSpawn(k)
           /\ UNCHANGED <<svars, mvars, hvars, fvars, avars, rvars, bvars>>)
    \/ (\E k \in Calls : OverlapOpen(k)
           /\ UNCHANGED <<svars, mvars, hvars, fvars, avars, rvars, bvars>>)
    \/ (\E k \in Calls : OverlapInitialize(k)
           /\ UNCHANGED <<svars, mvars, hvars, fvars, avars, rvars, bvars>>)
    \/ (\E k \in Calls : OverlapExit(k)
           /\ UNCHANGED <<svars, mvars, hvars, fvars, avars, rvars, bvars>>)
    \/ (OverlapDisconnect /\ UNCHANGED <<svars, mvars, hvars, fvars, avars, rvars, bvars>>)
    \/ (OverlapDisconnectExit /\ UNCHANGED <<svars, mvars, hvars, fvars, avars, rvars, bvars>>)

SpecOverlap == InitOverlap /\ [][NextOverlap]_vars

\* snapshot.py under pytest: test bodies run one after the other.
InitBody ==
    /\ SessionInit
    /\ ManagerIdle
    /\ HelperIdle
    /\ FactoryIdle
    /\ checked = NoCheck
    /\ retry = RetryIdle
    /\ overlap = NoOverlap
    /\ body = NoBody

NextBody ==
    \/ (RunTest /\ UNCHANGED <<svars, mvars, author, ret, fvars, avars, rvars, cvars>>)
    \/ (BodyAssert /\ UNCHANGED <<svars, mvars, author, ret, fvars, avars, rvars, cvars>>)

SpecBody == InitBody /\ [][NextBody]_vars

(***************************************************************************)
(* The claims.                                                             *)
(***************************************************************************)

\* The Session of SpecSession
the == clients[1]

\* Disconnected: no session handle, no streams, no scope stack
Disconnected(c) == c = NewClient

\* Connected: the handle is held and its handshake is complete, on one live
\* transport and one open handshake session
Connected(i) ==
    /\ is_connected(clients[i])
    /\ handshaken[i]
    /\ procs[i] = 1
    /\ opened[i] = 1

\* C1: when a connect() that failed has finished, the Session is Disconnected
\* and nothing it acquired is live; a connect() after it, against a healthy
\* server, ends Connected.
C1_FailedConnectDisconnects ==
    (pc = "idle" /\ result.op = "connect") =>
        /\ result.outcome # "ok" =>
              Disconnected(the) /\ ~is_connected(the) /\ procs[1] = 0 /\ opened[1] = 0
        /\ (prev.op = "connect" /\ prev.outcome # "ok" /\ server = "healthy") =>
              result.outcome = "ok" /\ Connected(1)

\* C2: when a disconnect() has finished, whatever came before it (another
\* disconnect(), or nothing at all), it has not raised, the Session is
\* Disconnected and no scope is exited more often than it was entered.
C2_DisconnectIdempotent ==
    /\ procs[1] >= 0
    /\ opened[1] >= 0
    /\ (pc = "idle" /\ result.op = "disconnect") =>
          /\ result.outcome = "ok"
          /\ Disconnected(the)
          /\ procs[1] = 0
          /\ opened[1] = 0

\* C3: assert_match(v, n) on no record, update mode off, followed at once by
\* assert_match(v, n), update mode off, for a JSON-representable v: the second
\* call finds the record the first one wrote, and passes.
C3_RoundTrip ==
    [][ ( /\ last.op = "assert_match"
          /\ ~last.existed
          /\ ~(last.update = "True" \/ (last.update = None /\ update_snapshots))
          /\ JSONRepresentable(last.value)
          /\ last'.op = "assert_match"
          /\ last'.value = last.value
          /\ last'.name = last.name
          /\ ~(last'.update = "True" \/ (last'.update = None /\ update_snapshots)) )
        => ( /\ last'.existed
             /\ files[_get_snapshot_path(node, last.name)] = _serialize(last.value)
             /\ files' = files
             /\ verdict'.kind = "passed" ) ]_vars

C3_Witness ==
    /\ last.op = "assert_match"
    /\ last.existed
    /\ ~last.differed
    /\ last.update = None
    /\ ~update_snapshots
    /\ last.value = Container("dict", << <<"'b'", "2">>, <<"'a'", "1">> >>)
    /\ verdict.kind = "passed"

\* C4: update mode off, a record exists, and the value's canonical form decodes
\* to something else than the record does: assert_match raises an AssertionError
\* that carries the persisted text and the fresh text.
C4_MismatchRaises ==
    LET path == _get_snapshot_path(node, last.name)
    IN ( /\ last.op = "assert_match"
         /\ last.existed
         /\ ~(last.update = "True" \/ (last.update = None /\ update_snapshots))
         /\ ~PyEq(_deserialize(_serialize(last.value)), _deserialize(files[path])) )
       => ( /\ verdict.kind = "AssertionError"
            /\ verdict.expected = files[path]
            /\ verdict.actual = _serialize(last.value)
            /\ verdict.expected # verdict.actual )

C4_Witness ==
    /\ last.op = "assert_match"
    /\ last.value = Container("dict", << <<"'b'", "2">>, <<"'a'", "1">> >>)
    /\ verdict.kind = "AssertionError"
    /\ verdict.expected = <<"{", "\"a\"", ":", "1", "}">>
    /\ verdict.actual = <<"{", "\"a\"", ":", "1", ",", "\"b\"", ":", "2", "}">>

\* C5: between the manager's calls, get_client() returns a client exactly when
\* the manager holds a Connected Session, and returns that Session; on a
\* manager never started, after stop() and after a failed start() it raises.
C5_GetClient ==
    Quiescent =>
        /\ get_client.outcome \in {"ok", "RuntimeError"}
        /\ get_client.outcome = "ok" <=> (_client # 0 /\ Connected(_client))
        /\ get_client.outcome = "ok" => get_client.client = _client
        /\ got.outcome # None => got = get_client
        /\ ( \/ mresult.op = None
             \/ mresult.op = "stop"
             \/ mresult.outcome = "RuntimeError" ) => get_client.outcome = "RuntimeError"

C5_Witness ==
    /\ Quiescent
    /\ mresult = MEnded("restart", "ok")
    /\ got.outcome = "ok"
    /\ got.client = _client
    /\ Connected(_client)

\* C6: an operation called on a Session that is not Connected fails with the
\* not-connected error and sends nothing.
C6_NotConnectedFails ==
    (pc = "idle" /\ result.op \in Ops /\ ~Connected(1)) =>
        result.outcome = "RuntimeError" /\ sent = 0

\* C7: a connect() that fails raises a ConnectionError whose cause is the step
\* that failed, with every scope it entered exited, and nothing else.
C7_OnlyConnectionError ==
    (pc = "idle" /\ result.op = "connect") =>
        /\ result.outcome \in {"ok", "ConnectionError"}
        /\ result.outcome = "ConnectionError" =>
              /\ result.cause \in {"spawn", "open", "initialize"}
              /\ procs[1] = 0
              /\ opened[1] = 0

\* C8: connect() on a Connected Session returns normally, and the handle, the
\* streams, the scope stack, the transport and the handshake are as they were.
C8_ConnectWhenConnected ==
    [][ (pc = "connect" /\ Connected(self))
        => ( /\ pc' = "idle"
             /\ result'.outcome = "ok"
             /\ clients' = clients
             /\ procs' = procs
             /\ opened' = opened
             /\ handshaken' = handshaken ) ]_vars

C8_Witness ==
    /\ pc = "idle"
    /\ prev = Ended("connect", "ok", None)
    /\ result = Ended("connect", "ok", None)
    /\ Connected(1)

\* C9: no record and update mode off: assert_match writes the canonical form
\* of the value as the record and passes.
C9_FirstEncounterWrites ==
    LET path == _get_snapshot_path(node, last.name)
    IN ( /\ last.op = "assert_match"
         /\ ~last.existed
         /\ ~(last.update = "True" \/ (last.update = None /\ update_snapshots)) )
       => ( /\ verdict.kind = "passed"
            /\ exists(path)
            /\ files[path] = _serialize(last.value) )

C9_Witness ==
    /\ last.op = "assert_match"
    /\ ~last.existed
    /\ last.update = "False"
    /\ update_snapshots
    /\ last.value = Container("tuple", << <<"", "1">>, <<"", "'a'">> >>)
    /\ verdict.kind = "passed"
    /\ files[_get_snapshot_path(node, last.name)] = <<"[", "1", ",", "\"a\"", "]">>

\* C10: update mode in effect (the per-call argument if given, else the global
\* flag): assert_match overwrites the record with the canonical form of the
\* value, compares nothing and is reported as skipped.
C10_UpdateSkips ==
    LET path == _get_snapshot_path(node, last.name)
    IN ( /\ last.op = "assert_match"
         /\ (last.update = "True" \/ (last.update = None /\ update_snapshots)) )
       => ( /\ verdict = Outcome("Skipped", NoText, NoText)
            /\ exists(path)
            /\ files[path] = _serialize(last.value) )

C10_Witness ==
    /\ last.op = "assert_match"
    /\ last.update = "True"
    /\ ~update_snapshots
    /\ last.existed
    /\ last.differed
    /\ verdict.kind = "Skipped"
    /\ files[_get_snapshot_path(node, last.name)] = _serialize(last.value)

\* The test identity of a node name: the name up to its bracketed
\* parameterization suffix.
TestIdentity(m) ==
    IF \E i \in 1..Len(m) : m[i] = "["
      THEN SubSeq(m, 1, (CHOOSE i \in 1..Len(m) :
                            m[i] = "[" /\ \A j \in 1..(i - 1) : m[j] # "[") - 1)
      ELSE m

\* the record of the pair (test identity t, snapshot name n), None when absent
RecordOf(f, t, n) ==
    IF _get_snapshot_path(t, n) \in DOMAIN f THEN f[_get_snapshot_path(t, n)] ELSE <<None>>

UpdateOff(l) == ~(l.update = "True" \/ (l.update = None /\ update_snapshots))

\* C11: an assert_match of the pair (test identity, snapshot name) leaves the
\* record of every other pair as it was: distinct pairs have distinct files.
C11_DistinctPairsDistinctFiles ==
    [][ last'.op = "assert_match" =>
          \A m \in NodeNames : \A n \in SnapshotNames :
             <<TestIdentity(m), n>> # <<TestIdentity(node), last'.name>>
                => RecordOf(files', TestIdentity(m), n) = RecordOf(files, TestIdentity(m), n)
      ]_vars

\* C12: node names that differ only in the bracketed suffix have the records
\* of every snapshot name in common, and records of different snapshot names
\* are different files; so a check (update mode off) of name n in one instance
\* is compared against what another instance of the test wrote under n.
C12_ParameterizedShareBaseline ==
    /\ \A m \in NodeNames : TestIdentity(m) = TestIdentity(node) =>
          \A n \in SnapshotNames : _get_snapshot_path(m, n) = _get_snapshot_path(node, n)
    /\ \A n1, n2 \in SnapshotNames :
          n1 # n2 => _get_snapshot_path(node, n1) # _get_snapshot_path(node, n2)
    /\ LET path == _get_snapshot_path(node, last.name)
       IN ( /\ last.op = "assert_match"
            /\ last.existed
            /\ UpdateOff(last)
            /\ author[path][1] # node
            /\ TestIdentity(author[path][1]) = TestIdentity(node)
            /\ author[path][2] = last.name )
          => ( /\ last.differed
                   <=> ~PyEq(_deserialize(_serialize(last.value)), _deserialize(files[path]))
               /\ verdict.kind = IF last.differed THEN "AssertionError" ELSE "passed" )

C12_Witness ==
    /\ node = <<"t", "[", "1", "]">>
    /\ last.op = "assert_match"
    /\ last.name = <<"b">>
    /\ last.existed
    /\ last.differed
    /\ UpdateOff(last)
    /\ author[_get_snapshot_path(node, last.name)] = << <<"t">>, <<"b">> >>
    /\ verdict.kind = "AssertionError"

\* the connect() that the manager's last start() awaited
LastConnect == IF result.op = "connect" THEN result ELSE prev

C14_WaitForReady ==
    ( /\ mpc = "idle"
      /\ pc = "idle"
      /\ mresult.op = "wait_for_ready" )
    => ( /\ mresult.outcome \in {"ok", "TimeoutError"}
         /\ mresult.outcome = "ok"
               <=> (get_client.outcome = "ok" /\ result = Ended("list_tools", "ok", None))
         /\ mresult.outcome = "TimeoutError"
               => /\ mresult.cause = IF get_client.outcome = "ok"
                                        THEN result.outcome ELSE "RuntimeError"
                  /\ mresult.cause \in {"ServerError", "RuntimeError"} )

C14_Witness ==
    /\ mpc = "idle"
    /\ pc = "idle"
    /\ mresult = [op |-> "wait_for_ready", outcome |-> "TimeoutError", cause |-> "ServerError"]
    /\ result = Ended("list_tools", "ServerError", "ServerError")
    /\ is_running

\* C15: a wait_for_ready() whose probe has been sent ends, whether the server
\* answers the probe or not.
C15_WaitForReadyEnds ==
    (mop = "wait_for_ready" /\ mpc = "probe") ~> (mpc = "idle")

\* C16: the step that ends stop_all() finds no tracked manager running,
\* whatever the disconnect() of each did, empties the list, and returns
\* normally; stop_all() has then stopped every tracked manager that held a
\* client.
C16_StopAllStopsAll ==
    [][ (fpc.at = "stop_all" /\ fpc'.at = "idle")
        => ( /\ \A i \in 1..Len(_servers) :
                   LET k == _servers[i]
                   IN /\ managers'[k] = 0
                      /\ ~(managers'[k] # 0 /\ is_connected(clients'[managers'[k]]))
             /\ _servers' = <<>>
             /\ fresult'.outcome = "ok"
             /\ fresult'.failed <= fresult'.stopped
             /\ fresult'.stopped <= Len(_servers) ) ]_vars

C16_Witness ==
    /\ fpc.at = "idle"
    /\ fresult = [op |-> "stop_all", outcome |-> "ok", stopped |-> 2, failed |-> 1]
    /\ Len(managers) = 2
    /\ \A k \in 1..Len(managers) : ~ManagerRunning(k)
    /\ _servers = <<>>
    /\ \E i \in 1..Len(clients) : is_connected(clients[i])

\* C17: the step in which the server answers or fails a call_tool or
\* read_resource request of a Connected Session ends the call with that answer
\* or that very failure, after one request, and leaves the Session as it was.
C17_FailurePropagates ==
    [][ ( /\ pc = "reply"
          /\ call.op \in {"call_tool", "read_resource"}
          /\ Connected(self) )
        => ( /\ pc' = "idle"
             /\ result'.op = call.op
             /\ result'.outcome \in Answers
             /\ result'.outcome # "ok" => result'.outcome = result'.cause
             /\ sent = 1
             /\ sent' = 1
             /\ clients' = clients
             /\ procs' = procs
             /\ opened' = opened
             /\ handshaken' = handshaken ) ]_vars

C17_Witness ==
    /\ pc = "idle"
    /\ result = Ended("read_resource", "ServerError", "ServerError")
    /\ sent = 1
    /\ Connected(1)

\* C18: assert_tool_returns_error raises an assertion failure when the call
\* succeeded, raises one when the call failed with a message that lacks the
\* required substring, and otherwise returns the failure of the call.
C18_ReturnsErrorOutcomes ==
    checked.op = "assert_tool_returns_error" =>
        LET called == checked.called
            required == checked.error_message \notin {PyNone, PyStr(<<>>)}
        IN CASE called = Returned ->
                   checked.outcome.kind = "raise" /\ checked.outcome.e.type = "AssertionError"
             [] called # Returned /\ required
                  /\ ~IsSubstring(checked.error_message.val, called.message) ->
                   checked.outcome.kind = "raise" /\ checked.outcome.e.type = "AssertionError"
             [] OTHER ->
                   checked.outcome.kind = "return" /\ checked.outcome.e = called

\* the actual value as C19 words it: the text of the only item if it has one,
\* otherwise the list of the items' texts or items
ActualAsClaimed(content) ==
    IF Len(content) = 1 /\ HasText(content[1])
      THEN PyStr(content[1].val)
      ELSE PyList([i \in 1..Len(content) |->
                     IF HasText(content[i]) THEN PyStr(content[i].val) ELSE content[i]])

\* the actual value: the text of the only item if it has one, the only item
\* itself if it has none, the list of the items' texts or items if there are
\* several
ActualAmended(content) ==
    IF Len(content) = 1
      THEN IF HasText(content[1]) THEN PyStr(content[1].val) ELSE content[1]
      ELSE ActualAsClaimed(content)

\* the value compared with expected: the decoding of a str actual when
\* expected is a mapping or a list and the str decodes
Compared(expected, actual) ==
    IF expected.type \in {"dict", "list"} /\ actual.type = "str" /\ JSONDecodes(actual.val)
      THEN json_loads(actual.val)
      ELSE actual

C20_PartialSubstring ==
    ( /\ checked.op = "assert_tool_output_matches"
      /\ checked.partial
      /\ checked.expected.type = "str"
      /\ Len(checked.content) = 1
      /\ HasText(checked.content[1]) )
    => LET e == checked.expected.val
           a == checked.content[1].val
       IN /\ checked.outcome.kind \in {"passed", "AssertionError"}
          /\ checked.outcome.kind = "passed"
                <=> \E i \in 1..(Len(a) + 1) : \E j \in (i - 1)..Len(a) : SubSeq(a, i, j) = e

C20_Witness ==
    /\ checked.op = "assert_tool_output_matches"
    /\ checked.partial
    /\ checked.expected = PyStr(<<"i">>)
    /\ checked.content = <<TextContent(<<"H", "i", "!">>)>>
    /\ checked.outcome.kind = "passed"

\* C21: assert_tools_have_unique_names raises exactly when two entries of the
\* listing have the same name, and its message names the names that two
\* entries have, and no other.
C21_UniqueNames ==
    checked.op = "assert_tools_have_unique_names" =>
        LET names == checked.tool_names
            twice == {n \in ToolNames :
                        \E i, j \in 1..Len(names) : i # j /\ names[i] = n /\ names[j] = n}
        IN /\ checked.outcome.kind = IF twice # {} THEN "AssertionError" ELSE "passed"
           /\ checked.outcome.names = twice

C21_Witness ==
    /\ checked.op = "assert_tools_have_unique_names"
    /\ checked.tool_names = <<"dup", "tool1", "dup">>
    /\ checked.outcome = [kind |-> "AssertionError", names |-> {"dup"}]

\* the call of the wrapper has ended
RetryEnded == retry.pc = "idle" /\ retry.outcome # NotEnded

\* C22: a function wrapped with max_attempts = N is invoked until its first
\* success or until N invocations: never more than N times, never again after
\* a success, the wrapper returns the result of the successful invocation, and
\* a wrapper that ends while every invocation raised an Exception has made N.
C22_RetryUntilSuccess ==
    LET calls == retry.calls
    IN /\ Len(calls) <= retry.max_attempts
       /\ \A i \in 1..Len(calls) - 1 : calls[i] = "Exception"
       /\ (calls # <<>> /\ calls[Len(calls)] = "ok") =>
              RetryEnded /\ retry.outcome = Returns(Len(calls))
       /\ (RetryEnded /\ retry.outcome.kind = "returned") =>
              /\ retry.outcome.value = Len(calls)
              /\ calls[Len(calls)] = "ok"
       /\ (RetryEnded /\ \A i \in 1..Len(calls) : calls[i] = "Exception") =>
              Len(calls) = retry.max_attempts

C22_Witness ==
    /\ RetryEnded
    /\ retry.max_attempts = 3
    /\ retry.calls = <<"Exception", "ok">>
    /\ retry.outcome = Returns(2)

\* C23: for every max_attempts, 0 and 1 included, a wrapper that ends in
\* failure raises the failure the last invocation of the wrapped function
\* raised.
C23_RaisesLastFailure ==
    (RetryEnded /\ retry.outcome.kind = "raised") =>
        /\ retry.calls # <<>>
        /\ retry.outcome.exc = Raises(retry.calls[Len(retry.calls)], Len(retry.calls))

\* the pair (identity of the running test, n) has a record: the file of the
\* pair is there, and this pair wrote it
HasRecord(n) ==
    LET path == _get_snapshot_path(node, n)
    IN /\ path \in DOMAIN files
       /\ author[path][1] = TestIdentity(node)
       /\ author[path][2] = n

\* the record of the pair (t, n) when the files are f and their writers w:
\* the text of the pair's file if the pair wrote it, None otherwise
PairRecord(f, w, t, n) ==
    LET path == _get_snapshot_path(t, n)
    IN IF path \in DOMAIN f /\ w[path][1] = t /\ w[path][2] = n THEN f[path] ELSE <<None>>

\* C24: list_snapshots() returns, in lexicographic order, exactly the names n
\* for which the running test's identity has a record, each as it was passed
\* to assert_match, and no name that comes from a record of another identity.
C24_ListsOwnNames ==
    ret.op = "list_snapshots" =>
        LET mine == {n \in RecordNames : HasRecord(n)}
        IN /\ {ret.names[i] : i \in 1..Len(ret.names)} = mine
           /\ Len(ret.names) = Cardinality(mine)
           /\ \A i, j \in 1..Len(ret.names) : i < j => StrLeq(ret.names[i], ret.names[j])

\* C25: get_snapshot(n) returns the value of the assert_match(v, n) that last
\* wrote the record of (test identity, n), or None when that pair has no
\* record; it changes no record and fails no test.
C25_GetReturnsLastWritten ==
    /\ [](ret.op = "get_snapshot" =>
            /\ ret.found = HasRecord(ret.name)
            /\ HasRecord(ret.name) =>
                  PyEq(ret.value, author[_get_snapshot_path(node, ret.name)][3]))
    /\ [][ (ret'.op = "get_snapshot" /\ ret' # ret) =>
              files' = files /\ verdict'.kind # "AssertionError" ]_vars

\* C26: delete_snapshot(n) removes the record of (test identity, n) if there
\* is one and leaves the record of every other pair as it was; the
\* assert_match(v, n) that follows it with update mode off finds no record,
\* writes v and passes.
C26_DeleteRemovesOnlyOwn ==
    /\ [][ (ret'.op = "delete_snapshot" /\ (ret' # ret \/ files' # files)) =>
              /\ PairRecord(files', author', TestIdentity(node), ret'.name) = <<None>>
              /\ \A m \in NodeNames : \A n \in RecordNames :
                    <<TestIdentity(m), n>> # <<TestIdentity(node), ret'.name>>
                       => PairRecord(files', author', TestIdentity(m), n)
                            = PairRecord(files, author, TestIdentity(m), n) ]_vars
    /\ [][ ( /\ ret.op = "delete_snapshot"
             /\ last'.op = "assert_match"
             /\ last'.name = ret.name
             /\ node' = node
             /\ UpdateOff(last') ) =>
              /\ ~last'.existed
              /\ verdict'.kind = "passed"
              /\ files'[_get_snapshot_path(node, ret.name)] = _serialize(last'.value) ]_vars

\* the files of the suffix in f
Suffixed(f, suffix) == {p \in DOMAIN f : p[Len(p)] = suffix}

\* the files of the suffix are the same in f and g
SameRecords(f, g, suffix) ==
    /\ Suffixed(f, suffix) = Suffixed(g, suffix)
    /\ \A p \in Suffixed(f, suffix) : f[p] = g[p]

\* C27: assert_match_text reads and writes only the .txt record of a name and
\* assert_match only the .json record, so neither changes the record of the
\* other; and a text that is compared passes exactly when it is the stored
\* text, character for character.
C27_TextVariant ==
    /\ [][ last'.op = "assert_match_text" => SameRecords(files, files', ".json") ]_vars
    /\ [][ last'.op = "assert_match" => SameRecords(files, files', ".txt") ]_vars
    /\ []( (last.op = "assert_match_text" /\ last.existed /\ UpdateOff(last)) =>
             (verdict.kind = "passed" <=> ~last.differed) )

\* C28: resources are released in reverse order of acquisition: on
\* disconnect() and on a failed connect(), whichever step failed, the transport
\* of a Session is closed only when no handshake session opened on it is open,
\* and a handshake session is open only on an open transport.
C28_ReverseRelease ==
    /\ [][ \A i \in DOMAIN procs :
              (i \in DOMAIN procs' /\ procs'[i] < procs[i]) => opened[i] = 0 ]_vars
    /\ [](\A i \in DOMAIN opened : opened[i] > 0 => procs[i] > 0)

C28_Witness ==
    /\ pc = "aclose"
    /\ call.op = "connect"
    /\ exc = "initialize"
    /\ opened[self] = 0
    /\ procs[self] = 1
    /\ cur._exit_stack.callbacks = <<"stdio_client">>

\* C29: a Session is Connected (is_connected true, requests accepted) only if
\* the initialize handshake of its connection has completed, also while
\* connect() is suspended in the handshake.
C29_ConnectedOnlyAfterHandshake ==
    \A i \in DOMAIN clients : is_connected(clients[i]) => handshaken[i]

\* C30: over connect() and disconnect() calls on one Session that do not
\* overlap, each free to succeed or fail, the Session has at most one transport
\* and at most one handshake session live at any time.
C30_AtMostOneLive ==
    \A i \in DOMAIN clients : procs[i] <= 1 /\ opened[i] <= 1

C30_Witness ==
    /\ pc = "idle"
    /\ prev.op = "connect"
    /\ prev.outcome = "ConnectionError"
    /\ result = Ended("connect", "ok", None)
    /\ procs[call.self] = 1
    /\ opened[call.self] = 1

\* C31: a failure raised while disconnecting is swallowed only by the
\* factory's stop_all(): the stop() of one manager ends as the disconnect() it
\* awaited ended, raising what that raised.
C31_StopPropagates ==
    [][ (mpc = "stop" /\ mop = "stop" /\ mpc' = "idle") =>
          (result.op = "disconnect" /\ mresult'.outcome = result.outcome) ]_vars

\* the file of the call l, made by the running test
PathOf(l) ==
    IF l.op = "assert_match_text"
      THEN with_suffix(_get_snapshot_path(node, l.name), ".txt")
      ELSE _get_snapshot_path(node, l.name)

Checks == {"assert_match", "assert_match_text"}

\* C32: with update mode off a check of an existing record leaves every
\* persisted text as it was, whether it passes or fails; an existing record
\* changes only through a call in update mode that names it.
C32_ChecksLeaveRecords ==
    /\ [][ (last'.op \in Checks /\ last'.existed /\ UpdateOff(last')) => files' = files ]_vars
    /\ [][ \A p \in DOMAIN files :
              (p \notin DOMAIN files' \/ files'[p] # files[p]) =>
                 (last'.op \in Checks /\ ~UpdateOff(last') /\ p = PathOf(last')) ]_vars

C32_Witness ==
    /\ last.op = "assert_match_text"
    /\ last.existed
    /\ UpdateOff(last)
    /\ verdict.kind = "AssertionError"
    /\ last.value.items = <<"a">>
    /\ files[PathOf(last)] = <<"a", "LF">>
    /\ \E p \in DOMAIN files : p[Len(p)] = ".json"

RECURSIVE Power(_, _)
Power(b, k) == IF k = 0 THEN 1 ELSE b * Power(b, k - 1)

\* C33: the wrapper sleeps exactly once between two consecutive attempts, the
\* first of which failed: the sleep before retry k lasts delay * backoff^(k-1),
\* uncapped; there is no sleep before the first attempt, after the last failed
\* attempt or after a success, so a run of N failed attempts sleeps N-1 times.
C33_SleepsBetweenAttempts ==
    LET calls == retry.calls
        slept == retry.slept
    IN /\ \A k \in 1..Len(slept) : slept[k] = retry.delay * Power(retry.backoff, k - 1)
       /\ retry.pc = "func" => Len(slept) = Len(calls)
       /\ retry.pc = "sleep" => Len(slept) = Len(calls) - 1
       /\ retry.pc = "for" => Len(slept) \in {Len(calls), Len(calls) - 1}
       /\ (RetryEnded /\ calls # <<>>) => Len(slept) = Len(calls) - 1
       /\ (RetryEnded /\ calls = <<>>) => slept = <<>>
       /\ (RetryEnded /\ retry.max_attempts >= 1
             /\ \A i \in 1..Len(calls) : calls[i] = "Exception")
            => Len(slept) = retry.max_attempts - 1

C33_Witness ==
    /\ RetryEnded
    /\ retry.max_attempts = 3
    /\ retry.calls = <<"Exception", "Exception", "Exception">>
    /\ retry.slept = <<1, 2>>

\* C34: when a sequence of start(), stop() and restart() calls on the manager
\* has ended with stop(), no transport (and no handshake session) that the
\* manager's Sessions spawned is live.
C34_StopLeavesNothingLive ==
    (Quiescent /\ mop = "stop") =>
        \A i \in DOMAIN clients : procs[i] = 0 /\ opened[i] = 0

\* the calls whose transport, or handshake session, is live
LiveTransports == {k \in Calls : overlap.transport[k]}
LiveHandshakes == {k \in Calls : overlap.handshake[k]}

\* every connect() that was started has ended
ConnectsEnded == \A k \in Calls : overlap.cpc[k] \in {"new", "done"}

\* the stacks that hold the exit callback cb
StacksOf(cb) ==
    {x \in Calls : \E i \in 1..Len(overlap.stacks[x]) : overlap.stacks[x][i] = cb}

\* C35 as claimed: when a connect() was started while an earlier one was
\* suspended, the Session still ends with at most one live transport and one
\* handshake session, and the disconnect() that follows leaves none live.
C35_OverlapAsClaimed ==
    (\E k \in Calls : overlap.overlapped[k] \in {"stdio_client", "ClientSession", "initialize"})
      => /\ ConnectsEnded =>
               Cardinality(LiveTransports) <= 1 /\ Cardinality(LiveHandshakes) <= 1
         /\ overlap.dpc = "done" => LiveTransports = {}

\* C35, amended: connect() calls that do not overlap leave at most one
\* transport and one handshake session live, and the disconnect() that
\* follows leaves none.  A second connect() started while the first is
\* suspended in the handshake returns at once and spawns nothing.  Started
\* earlier, it replaces the scope stack: disconnect() then releases what is on
\* the stack the Session holds, and whatever stays live is on a stack the
\* Session holds no more.
C35_Overlap ==
    /\ (\A k \in Calls : overlap.overlapped[k] \in {None, "no"})
         => /\ Cardinality(LiveTransports) <= 1 /\ Cardinality(LiveHandshakes) <= 1
            /\ overlap.dpc = "done" => LiveTransports = {} /\ LiveHandshakes = {}
    /\ (MaxConnects >= 2 /\ overlap.overlapped[2] = "initialize")
         => /\ overlap.cpc[2] = "done" /\ overlap.returned[2] = "ok"
            /\ ~overlap.transport[2] /\ ~overlap.handshake[2]
    /\ overlap.dpc = "done"
         => /\ overlap._exit_stack = 0 /\ overlap._session = 0
            /\ overlap.dtarget # 0 => overlap.stacks[overlap.dtarget] = <<>>
            /\ \A k \in LiveTransports : StacksOf(<<"stdio_client", k>>) # {}
            /\ \A k \in LiveHandshakes : StacksOf(<<"ClientSession", k>>) # {}

C35_Witness ==
    /\ overlap.overlapped[2] = "stdio_client"
    /\ overlap.returned = [k \in Calls |-> IF k <= 2 THEN "ok" ELSE None]
    /\ overlap.dpc = "done"
    /\ overlap.dtarget = 2
    /\ LiveTransports = {1}
    /\ StacksOf(<<"stdio_client", 1>>) = {1}

\* C36: when a disconnect() has ended with the failure of a release, the
\* Session is Disconnected all the same (no session handle, no scope stack),
\* and the operation called next sends nothing.
C36_FailedDisconnectDisconnects ==
    /\ (pc = "idle" /\ result.op = "disconnect" /\ result.outcome # "ok") =>
          /\ ~is_connected(the)
          /\ the._session = None
          /\ ~the._exit_stack.held
    /\ (pc = "idle" /\ result.op \in Ops /\ prev.op = "disconnect" /\ prev.outcome # "ok") =>
          sent = 0 /\ result.outcome # "ok"

\* C37: when a stop_all() returns, no manager the factory ever created is
\* running, a manager started again after an earlier stop_all() included.
C37_StopAllStopsEveryCreated ==
    [][ (fpc.at = "stop_all" /\ fpc'.at = "idle") =>
          \A k \in DOMAIN managers : ~ManagerRunning(k) ]_vars

\* C38: in global update mode, when a test body that calls assert_match for
\* several names one after the other has run once, the record of every one of
\* the names holds the value the body passes for it.
C38_UpdateRewritesAll ==
    (body.at = "idle" /\ body.plan # <<>> /\ update_snapshots) =>
        \A j \in 1..Len(body.plan) :
           LET path == _get_snapshot_path(node, body.plan[j].name)
           IN exists(path) /\ files[path] = _serialize(body.plan[j].value)

\* C39: assert_tool_returns_error returns an exception only when the request
\* was sent, that is when the client was connected: the not-connected usage
\* error is never returned as the tool's failure.
C39_ReturnsOnlySentFailures ==
    (checked.op = "assert_tool_returns_error" /\ checked.outcome.kind = "return") =>
        (checked.connected /\ checked.outcome.e # NotConnectedError)

\* C40: partial mode with a dict expected and a result that has content.  The
\* text is never decoded: when every item is text the helper raises "Partial
\* matching not supported", whatever the text.  The keys are compared only
\* when the actual value is a dict, and then the helper passes exactly when
\* every expected key is in it with an equal value.
C40_PartialNoDecode ==
    ( /\ checked.op = "assert_tool_output_matches"
      /\ checked.partial
      /\ checked.expected.type = "dict"
      /\ checked.content # <<>> )
    => LET content == checked.content
           expected == checked.expected.val
           mapping == Len(content) = 1 /\ content[1].type = "dict"
       IN /\ (\A i \in 1..Len(content) : content[i].type = "TextContent")
                => checked.outcome = Failed("Partial matching not supported")
          /\ ~mapping => checked.outcome = Failed("Partial matching not supported")
          /\ mapping =>
                /\ checked.outcome.kind \in {"passed", "AssertionError"}
                /\ checked.outcome.message # "Partial matching not supported"
                /\ checked.outcome.kind = "passed"
                      <=> \A key \in DOMAIN expected :
                             /\ key \in DOMAIN content[1].val
                             /\ content[1].val[key] = expected[key]

C40_Witness ==
    /\ checked.op = "assert_tool_output_matches"
    /\ checked.partial
    /\ checked.expected = PyDict(<<"a">> :> PyInt(1))
    /\ checked.content = <<TextContent(<<"{", "\"", "a", "\"", ":", "1", "}">>)>>
    /\ checked.outcome = Failed("Partial matching not supported")

====
